---- MODULE Spec2Model ----
(***************************************************************************)
(* Nested-scene geometry and stacking order of the react-flow fork:        *)
(*   - getEdgeOffsets        (EdgeRenderer/utils)                          *)
(*   - calculateZIndexes     (Nodes/wrapNode.tsx, per node)                *)
(*   - calculateZIndexes     (EdgeRenderer, per edge / connection line)    *)
(*   - Edge, getHandle, getHandlePosition, isEdgeVisible (EdgeRenderer)    *)
(*   - EdgeWrapper           (Edges/wrapEdge.tsx)                          *)
(*   - NodeRenderer, renderNode, NodeWrapper (NodeRenderer, wrapNode.tsx)  *)
(*                                                                         *)
(* Conventions for JavaScript values:                                      *)
(*   undefined / null ids      the strings Undefined / Null                *)
(*   an optional value         <<>> (absent) or <<v>> (present)            *)
(*   a CSS string "10px"       the sequence <<"1","0","p","x">>            *)
(*   a JS number in edge code  [inf |-> -1|0|1, v |-> Int]                 *)
(*   a size that may be null   <<>> (null) or <<n>>                        *)
(***************************************************************************)
EXTENDS Integers, Sequences, FiniteSets, TLC

VARIABLES
    nodes,                       \* store state.nodes: Seq of [id, parentId, position,
                                 \*   width, height, handleBounds, isDragging] (all but
                                 \*   the first two of __rf)
    document,                    \* DOM: node id -> <<>> or <<element>> ([data-id=...])
    edges,                       \* store state.edges: Seq of [id, source, target,
                                 \*   sourceHandle, targetHandle]
    connectionNodeId,            \* store state.connectionNodeId
    connectionHandleType,        \* store state.connectionHandleType
    mostRecentlyTouchedSceneIds, \* prop: <<>> (undefined) or <<list of ids>>
    transform,                   \* store state.transform: <<x, y, zoom>>
    width,                       \* store state.width of the pane
    height,                      \* store state.height of the pane
    onlyRenderVisibleElements,   \* prop
    edgeOffsets,                 \* rendered: node id -> result of getEdgeOffsets
    edgeZIndex,                  \* rendered: style.zIndex of each edge's <svg>
    connectionLineZIndex,        \* rendered: <<>> or <<style.zIndex of the connection line>>
    renderedEdges,               \* rendered: what the Edge instance of each edge returned
    renderedNodes,               \* rendered: the mounted NodeWrapper instances, in the
                                 \*   order renderNode created their elements
    nodesDraggable,              \* store state.nodesDraggable
    elementsSelectable,          \* store state.elementsSelectable
    selectNodesOnDrag,           \* prop
    selectedElements,            \* store state.selectedElements: the set of selected ids
    pointer,                     \* the mouse gesture on a node: [phase, node, target, moves]
    dragging,                    \* the node whose DraggableCore has state.dragging, or Null
    calls                        \* the calls <<handler, callee>> made since the last
                                 \*   mouse down, in order

vars == <<nodes, document, edges, connectionNodeId, connectionHandleType,
          mostRecentlyTouchedSceneIds, transform, width, height,
          onlyRenderVisibleElements, edgeOffsets, edgeZIndex, connectionLineZIndex,
          renderedEdges, renderedNodes, nodesDraggable, elementsSelectable,
          selectNodesOnDrag, selectedElements, pointer, dragging, calls>>

\* the state of the node interaction
interaction == <<nodesDraggable, elementsSelectable, selectNodesOnDrag,
                 selectedElements, pointer, dragging, calls>>

----------------------------------------------------------------------------
(* Bounds *)

\* Depth of the JavaScript call stack available to getEdgeOffsets.
MaxCallStack == 6

\* Longest touched-scene list handed to the renderers.
MaxTouched == 2

\* the most onDrag calls followed within one gesture
MaxMoves == 2

\* the largest x a dragged node is followed to
MaxDragX == 10

----------------------------------------------------------------------------
(* JavaScript values *)

Undefined == "undefined"
Null == "null"

\* Boolean(x) for an id that is a non-empty string, null or undefined
Truthy(x) == x # Null /\ x # Undefined /\ x # ""

\* seq.findIndex(x => x === v), from the 1-based position i on
RECURSIVE FindIndexFrom(_, _, _)
FindIndexFrom(seq, v, i) ==
    IF i > Len(seq) THEN -1
    ELSE IF seq[i] = v THEN i - 1
    ELSE FindIndexFrom(seq, v, i + 1)

\* seq.findIndex(x => x === v): the 0-based index of the first v, or -1
FindIndex(seq, v) == FindIndexFrom(seq, v, 1)

\* nodes.find(n => n.id === id): <<>> or <<node>>
FindNode(ns, id) ==
    LET i == FindIndex([k \in 1..Len(ns) |-> ns[k].id], id)
    IN  IF i = -1 THEN <<>> ELSE <<ns[i + 1]>>

NodeIds(ns) == {ns[i].id : i \in 1..Len(ns)}

----------------------------------------------------------------------------
(* The DOM a scene node renders: elements [height, padding, children] *)

Px0 == <<"0", "p", "x">>
Px4 == <<"4", "p", "x">>
Px10 == <<"1", "0", "p", "x">>
Px20 == <<"2", "0", "p", "x">>
Px30 == <<"3", "0", "p", "x">>
Px50 == <<"5", "0", "p", "x">>
Px60 == <<"6", "0", "p", "x">>
Px80 == <<"8", "0", "p", "x">>
Px100 == <<"1", "0", "0", "p", "x">>

Elem(h, p, kids) == [height |-> h, padding |-> p, children |-> kids]

\* scene element with padding 10px whose only child is a 20px header
SceneHeaderOnly == Elem(Px100, Px10, <<Elem(Px20, Px0, <<>>)>>)

\* scene element wrapping a same-height container (padding 4px) of a header and a body
SceneWrapped ==
    Elem(Px80, Px0, <<Elem(Px80, Px4, <<Elem(Px30, Px0, <<>>), Elem(Px50, Px0, <<>>)>>)>>)

\* scene element without any child element
SceneEmpty == Elem(Px60, Px10, <<>>)

\* scene elements whose computed style lacks a property: getPropertyValue then
\* returns the empty string, written <<>> like null (both are falsy, and the
\* code never compares the one with the other)
SceneUnstyled == Elem(<<>>, <<>>, <<Elem(<<>>, <<>>, <<>>)>>)
ScenePaddingAbsent == Elem(Px100, <<>>, <<Elem(Px20, Px0, <<>>)>>)
SceneHeaderAbsent == Elem(Px100, Px10, <<Elem(<<>>, Px0, <<>>)>>)

\* what document.querySelector(`[data-id="..."]`) can yield for one id
DomShapes == <<<<>>, <<SceneHeaderOnly>>, <<SceneWrapped>>, <<SceneEmpty>>>>

\* document.querySelector(`[data-id="${id}"]`)
QuerySelector(doc, id) == IF id \in DOMAIN doc THEN doc[id] ELSE <<>>

----------------------------------------------------------------------------
(* getEdgeOffsets *)

\* window.getComputedStyle(elem).getPropertyValue(property); <<>> is null
findElemPropertyValue(elem, property) ==
    IF elem = <<>> THEN <<>>
    ELSE IF property = "height" THEN elem[1].height
    ELSE elem[1].padding

DigitValue(c) ==
    CASE c = "0" -> 0 [] c = "1" -> 1 [] c = "2" -> 2 [] c = "3" -> 3 [] c = "4" -> 4
      [] c = "5" -> 5 [] c = "6" -> 6 [] c = "7" -> 7 [] c = "8" -> 8 [] c = "9" -> 9

\* Number(s) for a string of decimal digits; Number("") is 0
RECURSIVE NumberOf(_)
NumberOf(s) ==
    IF s = <<>> THEN 0
    ELSE NumberOf(SubSeq(s, 1, Len(s) - 1)) * 10 + DigitValue(s[Len(s)])

convertFromPxToNum(pxNumString) ==
    IF pxNumString = <<>> THEN 0
    ELSE NumberOf(SubSeq(pxNumString, 1, Len(pxNumString) - 2))

\* currNodeElem.firstElementChild
FirstElementChild(elem) ==
    IF elem[1].children = <<>> THEN <<>> ELSE <<elem[1].children[1]>>

\* walks down first children while their height equals the scene's height;
\* parentElem is currNodeElem.parentElement
RECURSIVE findRelevantParentNode(_, _, _)
findRelevantParentNode(currNodeElem, parentElem, sceneNodeHeight) ==
    IF currNodeElem = <<>> THEN <<>>
    ELSE IF sceneNodeHeight = findElemPropertyValue(currNodeElem, "height")
         THEN findRelevantParentNode(FirstElementChild(currNodeElem), currNodeElem,
                                     sceneNodeHeight)
         ELSE parentElem

\* Array.from(elem.children).map(height).reduce((acc, j) => acc + convertFromPxToNum(j), 0)
RECURSIVE SumHeights(_)
SumHeights(kids) ==
    IF kids = <<>> THEN 0
    ELSE SumHeights(SubSeq(kids, 1, Len(kids) - 1))
         + convertFromPxToNum(findElemPropertyValue(<<kids[Len(kids)]>>, "height"))

\* parentNodePadding of the scene element sceneNode
ParentNodePadding(sceneNode) ==
    LET sceneNodeHeight == findElemPropertyValue(sceneNode, "height")
        relevantParentNode == findRelevantParentNode(sceneNode, <<>>, sceneNodeHeight)
    IN  convertFromPxToNum(findElemPropertyValue(relevantParentNode, "padding"))

\* totalContainingHeight of the scene element sceneNode
TotalContainingHeight(sceneNode) ==
    LET sceneNodeHeight == findElemPropertyValue(sceneNode, "height")
        relevantParentNode == findRelevantParentNode(sceneNode, <<>>, sceneNodeHeight)
    IN  IF relevantParentNode # <<>> THEN SumHeights(relevantParentNode[1].children) ELSE 0

Returned(x, y) == [threw |-> FALSE, x |-> x, y |-> y]
RangeError == [threw |-> TRUE, x |-> 0, y |-> 0]

RECURSIVE getEdgeOffsets(_, _, _, _)

\* mutant: the parent's own offset is not added (one level only)
getEdgeOffsetsOneLevel(ns, doc, nodeId, depth) ==
    LET node == FindNode(ns, nodeId)
        parent == IF node = <<>> THEN <<>> ELSE FindNode(ns, node[1].parentId)
    IN  IF parent = <<>> \/ node = <<>> THEN Returned(0, 0)
        ELSE LET sceneNode == QuerySelector(doc, node[1].parentId)
                 pad == ParentNodePadding(sceneNode)
             IN  Returned(parent[1].position.x + pad,
                          parent[1].position.y + TotalContainingHeight(sceneNode) + pad)

\* mutant: a node without a parent resolves to its own position
getEdgeOffsetsOwnPosition(ns, doc, nodeId, depth) ==
    LET node == FindNode(ns, nodeId)
        parent == IF node = <<>> THEN <<>> ELSE FindNode(ns, node[1].parentId)
    IN  IF node = <<>> THEN Returned(0, 0)
        ELSE IF parent = <<>> THEN Returned(node[1].position.x, node[1].position.y)
        ELSE getEdgeOffsetsOneLevel(ns, doc, nodeId, depth)

\* mutant: the node's own local position is added to the offset
getEdgeOffsetsPlusOwn(ns, doc, nodeId, depth) ==
    LET node == FindNode(ns, nodeId)
        r == getEdgeOffsetsOneLevel(ns, doc, nodeId, depth)
    IN  IF node = <<>> \/ FindNode(ns, node[1].parentId) = <<>> THEN r
        ELSE Returned(r.x + node[1].position.x, r.y + node[1].position.y)

\* mutant: without the scene's element the resolution gives up with [0, 0]
getEdgeOffsetsNeedsElement(ns, doc, nodeId, depth) ==
    LET node == FindNode(ns, nodeId)
    IN  IF node # <<>> /\ QuerySelector(doc, node[1].parentId) = <<>> THEN Returned(0, 0)
        ELSE getEdgeOffsetsOneLevel(ns, doc, nodeId, depth)

\* getEdgeOffsets(nodes, nodeId), called with `depth` frames already on the stack;
\* RangeError is the engine's "Maximum call stack size exceeded"
getEdgeOffsets(ns, doc, nodeId, depth) ==
    IF depth >= MaxCallStack THEN RangeError
    ELSE
    LET node == FindNode(ns, nodeId)
        parent == IF node = <<>> THEN <<>> ELSE FindNode(ns, node[1].parentId)
    IN  IF parent = <<>> \/ node = <<>> THEN Returned(0, 0)
        ELSE LET sceneNode == QuerySelector(doc, node[1].parentId)
                 parentNodePadding == ParentNodePadding(sceneNode)
                 totalContainingHeight == TotalContainingHeight(sceneNode)
                 xOffset == parent[1].position.x + parentNodePadding
                 yOffset == parent[1].position.y + totalContainingHeight + parentNodePadding
                 parentOffsets == getEdgeOffsets(ns, doc, parent[1].id, depth + 1)
             IN  IF parentOffsets.threw THEN RangeError
                 ELSE Returned(xOffset + parentOffsets.x, yOffset + parentOffsets.y)

----------------------------------------------------------------------------
(* calculateZIndexes of a node (Nodes/wrapNode.tsx) *)

baseZIndexForNode == 10
additionalZIndexForOverlayNodes == 5
defaultZIndex == 3

\* mutant: the ordinal grows with the index, the oldest touched scene on top
translateSceneIdIndexToZIndexReversed(ary, idx) ==
    IF idx = -1 THEN 0 ELSE (idx + 1) * 10

translateSceneIdIndexToZIndex(ary, idx) ==
    IF idx = -1 THEN 0 ELSE (Len(ary) - idx) * 10

\* mutant: the scene looked up is always the node's own id
calculateZIndexesOwnScene(ns, id, touched) ==
    IF touched # <<>>
    THEN LET found == FindNode(ns, id)
             parentId == IF found = <<>> THEN Undefined ELSE found[1].parentId
         IN  baseZIndexForNode
             + translateSceneIdIndexToZIndex(touched[1], FindIndex(touched[1], id))
             + (IF Truthy(parentId) THEN additionalZIndexForOverlayNodes ELSE 0)
    ELSE defaultZIndex

\* mutant: an empty touched list is taken for a list that was not supplied
calculateZIndexesEmptyIsDefault(ns, id, touched) ==
    IF touched # <<>> /\ touched[1] # <<>>
    THEN calculateZIndexesOwnScene(ns, id, touched)
    ELSE defaultZIndex

\* the top of the parent chain of id, followed for at most fuel steps
RECURSIVE TopSceneOf(_, _, _)
TopSceneOf(ns, id, fuel) ==
    LET found == FindNode(ns, id)
    IN  IF fuel = 0 \/ found = <<>> THEN id
        ELSE IF ~Truthy(found[1].parentId) THEN id
        ELSE TopSceneOf(ns, found[1].parentId, fuel - 1)

\* mutant: the scene looked up is the top-level scene the node is nested in
calculateZIndexesTopScene(ns, id, touched) ==
    IF touched # <<>>
    THEN LET found == FindNode(ns, id)
             parentId == IF found = <<>> THEN Undefined ELSE found[1].parentId
         IN  baseZIndexForNode
             + translateSceneIdIndexToZIndex(
                   touched[1], FindIndex(touched[1], TopSceneOf(ns, id, Len(ns))))
             + (IF Truthy(parentId) THEN additionalZIndexForOverlayNodes ELSE 0)
    ELSE defaultZIndex

\* calculateZIndexes(mostRecentlyTouchedSceneIds) inside the NodeWrapper of node `id`
calculateZIndexes(ns, id, touched) ==
    IF touched # <<>>
    THEN LET found == FindNode(ns, id)
             parentId == IF found = <<>> THEN Undefined ELSE found[1].parentId
             sceneNodeId == IF parentId # Undefined /\ parentId # Null THEN parentId ELSE id
             sceneIdIndex == FindIndex(touched[1], sceneNodeId)
             additional == IF Truthy(parentId) THEN additionalZIndexForOverlayNodes ELSE 0
         IN  baseZIndexForNode
             + translateSceneIdIndexToZIndex(touched[1], sceneIdIndex)
             + additional
    ELSE defaultZIndex

----------------------------------------------------------------------------
(* calculateZIndexes of an edge or of the connection line (EdgeRenderer) *)

baseZIndexForEdge == 10
additionalZIndexForEdge == 5
drawingZIndex == 10000000

\* JavaScript numbers that may be infinite
Num(n) == [inf |-> 0, v |-> n]
PosInfinity == [inf |-> 1, v |-> 0]
NegInfinity == [inf |-> -1, v |-> 0]
JsLess(a, b) ==
    IF a.inf # 0 \/ b.inf # 0 THEN a.inf < b.inf ELSE a.v < b.v

\* nodes.filter(n => n.id === target || n.id === source).map(n => n?.parentId)
RECURSIVE EdgeParentIds(_, _, _)
EdgeParentIds(ns, edgeTargetNodeId, edgeSourceNodeId) ==
    IF ns = <<>> THEN <<>>
    ELSE LET n == Head(ns)
             rest == EdgeParentIds(Tail(ns), edgeTargetNodeId, edgeSourceNodeId)
         IN  IF n.id = edgeTargetNodeId \/ n.id = edgeSourceNodeId
             THEN <<n.parentId>> \o rest
             ELSE rest

SetMin(S) == CHOOSE m \in S : \A k \in S : m <= k

\* sceneIdIndex(): Math.min over the set of touched indexes of the endpoints' parentIds
sceneIdIndex(ns, list, edgeTargetNodeId, edgeSourceNodeId) ==
    LET parentIds == EdgeParentIds(ns, edgeTargetNodeId, edgeSourceNodeId)
        all == {FindIndex(list, parentIds[i]) : i \in 1..Len(parentIds)}
        unique == IF -1 \in all /\ Cardinality(all) > 1 THEN all \ {-1} ELSE all
    IN  IF unique = {} THEN PosInfinity ELSE Num(SetMin(unique))

\* (ary, idx) => (idx === -1 ? 0 : (ary.length - idx) * 10), idx possibly Infinity
translateEdgeSceneIdIndexToZIndex(ary, idx) ==
    IF idx.inf = 1 THEN NegInfinity
    ELSE IF idx.v = -1 THEN Num(0)
    ELSE Num((Len(ary) - idx.v) * 10)

\* mutant: a connection being drawn is ranked like a resolved edge
calculateEdgeZIndexesNoDrawing(ns, touched, edgeTargetNodeId, edgeSourceNodeId, shouldRender) ==
    IF touched # <<>>
    THEN LET t == translateEdgeSceneIdIndexToZIndex(
                      touched[1],
                      sceneIdIndex(ns, touched[1], edgeTargetNodeId, edgeSourceNodeId))
         IN  IF t.inf # 0 THEN t
             ELSE Num(baseZIndexForEdge + t.v + additionalZIndexForEdge)
    ELSE Num(defaultZIndex)

\* calculateZIndexes(mostRecentlyTouchedSceneIds, edgeTargetNodeId, edgeSourceNodeId,
\*                   shouldRenderConnectionLine) of BaseEdgeRenderer;
\* shouldRender is shouldRenderConnectionLine
calculateEdgeZIndexes(ns, touched, edgeTargetNodeId, edgeSourceNodeId, shouldRender) ==
    LET isDrawingEdge ==
            shouldRender
            /\ ~(Truthy(edgeSourceNodeId) /\ Truthy(edgeTargetNodeId))
    IN  IF isDrawingEdge THEN Num(drawingZIndex)
        ELSE IF touched # <<>>
        THEN LET t == translateEdgeSceneIdIndexToZIndex(
                          touched[1],
                          sceneIdIndex(ns, touched[1], edgeTargetNodeId, edgeSourceNodeId))
             IN  IF t.inf # 0 THEN t
                 ELSE Num(baseZIndexForEdge + t.v + additionalZIndexForEdge)
        ELSE Num(defaultZIndex)

----------------------------------------------------------------------------
(* Edge endpoint geometry (EdgeRenderer/utils) *)

\* a measured handle of handleBounds.source / handleBounds.target
Handle(id, x, y, w, h, position) ==
    [id |-> id, x |-> x, y |-> y, width |-> w, height |-> h, position |-> position]

\* a size that may be null, used as a number: null counts as 0 in + and /
OptNumber(o) == IF o = <<>> THEN 0 ELSE o[1]

\* !size for a size that may be null
Falsy(o) == o = <<>> \/ o[1] = 0

Min2(a, b) == IF a < b THEN a ELSE b
Max2(a, b) == IF a > b THEN a ELSE b

\* the last node of ns with this id: <<>> or <<node>>
RECURSIVE LastNodeWithId(_, _)
LastNodeWithId(ns, id) ==
    IF ns = <<>> THEN <<>>
    ELSE IF ns[Len(ns)].id = id THEN <<ns[Len(ns)]>>
    ELSE LastNodeWithId(SubSeq(ns, 1, Len(ns) - 1), id)

\* getSourceTargetNodes(edge, nodes): the reduce keeps the last node that matches
getSourceTargetNodes(edge, ns) ==
    [sourceNode |-> LastNodeWithId(ns, edge.source),
     targetNode |-> LastNodeWithId(ns, edge.target)]

\* getHandle(bounds, handleId); bounds is <<>> (null) or <<array of handles>>,
\* the result <<>> (null) or <<handle>>
getHandle(bounds, handleId) ==
    IF bounds = <<>> THEN <<>>
    ELSE IF Len(bounds[1]) = 1 \/ ~Truthy(handleId)
         THEN IF bounds[1] = <<>> THEN <<>> ELSE <<bounds[1][1]>>
         ELSE LET i == FindIndex([k \in 1..Len(bounds[1]) |-> bounds[1][k].id], handleId)
              IN  IF i = -1 THEN <<>> ELSE <<bounds[1][i + 1]>>

\* mutant: the size is always the node's size
getHandlePositionNodeSize(position, node, handle) ==
    LET x == (IF handle = <<>> THEN 0 ELSE handle[1].x) + node.position.x
        y == (IF handle = <<>> THEN 0 ELSE handle[1].y) + node.position.y
        w == OptNumber(node.width)
        h == OptNumber(node.height)
    IN  CASE position = "top" -> [x |-> x + w \div 2, y |-> y]
          [] position = "right" -> [x |-> x + w, y |-> y + h \div 2]
          [] position = "bottom" -> [x |-> x + w \div 2, y |-> y + h]
          [] position = "left" -> [x |-> x, y |-> y + h \div 2]

\* getHandlePosition(position, node, handle); handle is <<>> (null) or <<handle>>.
\* The sizes of the inputs are even, so that / 2 is exact.
getHandlePosition(position, node, handle) ==
    LET x == (IF handle = <<>> THEN 0 ELSE handle[1].x) + node.position.x
        y == (IF handle = <<>> THEN 0 ELSE handle[1].y) + node.position.y
        w == IF handle # <<>> /\ handle[1].width # 0
             THEN handle[1].width ELSE OptNumber(node.width)
        h == IF handle # <<>> /\ handle[1].height # 0
             THEN handle[1].height ELSE OptNumber(node.height)
    IN  CASE position = "top" -> [x |-> x + w \div 2, y |-> y]
          [] position = "right" -> [x |-> x + w, y |-> y + h \div 2]
          [] position = "bottom" -> [x |-> x + w \div 2, y |-> y + h]
          [] position = "left" -> [x |-> x, y |-> y + h \div 2]

getEdgePositions(sourceNode, sourceHandle, sourcePosition, targetNode, targetHandle, targetPosition) ==
    LET sourceHandlePos == getHandlePosition(sourcePosition, sourceNode, sourceHandle)
        targetHandlePos == getHandlePosition(targetPosition, targetNode, targetHandle)
    IN  [sourceX |-> sourceHandlePos.x, sourceY |-> sourceHandlePos.y,
         targetX |-> targetHandlePos.x, targetY |-> targetHandlePos.y]

\* rectToBox of utils/graph
rectToBox(rect) ==
    [x |-> rect.x, y |-> rect.y, x2 |-> rect.x + rect.width, y2 |-> rect.y + rect.height]

\* the box of the two points, one unit wide on an axis the points share
EdgeBox(sourcePos, targetPos) ==
    LET x == Min2(sourcePos.x, targetPos.x)
        y == Min2(sourcePos.y, targetPos.y)
        x2 == Max2(sourcePos.x, targetPos.x)
        y2 == Max2(sourcePos.y, targetPos.y)
    IN  [x |-> x, y |-> y,
         x2 |-> IF x = x2 THEN x2 + 1 ELSE x2,
         y2 |-> IF y = y2 THEN y2 + 1 ELSE y2]

\* the visible region in canvas units; the inputs are multiples of the zoom, so
\* that / transform[2] is exact
ViewBox(w, h, tr) ==
    rectToBox([x |-> (0 - tr[1]) \div tr[3], y |-> (0 - tr[2]) \div tr[3],
               width |-> w \div tr[3], height |-> h \div tr[3]])

\* mutant: the box of the two points is tested as it is
isEdgeVisibleNotInflated(sourcePos, targetPos, w, h, tr) ==
    LET edgeBox == [x |-> Min2(sourcePos.x, targetPos.x), y |-> Min2(sourcePos.y, targetPos.y),
                    x2 |-> Max2(sourcePos.x, targetPos.x), y2 |-> Max2(sourcePos.y, targetPos.y)]
        viewBox == ViewBox(w, h, tr)
        xOverlap == Max2(0, Min2(viewBox.x2, edgeBox.x2) - Max2(viewBox.x, edgeBox.x))
        yOverlap == Max2(0, Min2(viewBox.y2, edgeBox.y2) - Max2(viewBox.y, edgeBox.y))
    IN  xOverlap * yOverlap > 0

\* isEdgeVisible({ sourcePos, targetPos, width, height, transform }); Math.ceil of
\* the product of two integers is the product
isEdgeVisible(sourcePos, targetPos, w, h, tr) ==
    LET edgeBox == EdgeBox(sourcePos, targetPos)
        viewBox == ViewBox(w, h, tr)
        xOverlap == Max2(0, Min2(viewBox.x2, edgeBox.x2) - Max2(viewBox.x, edgeBox.x))
        yOverlap == Max2(0, Min2(viewBox.y2, edgeBox.y2) - Max2(viewBox.y, edgeBox.y))
        overlappingArea == xOverlap * yOverlap
    IN  overlappingArea > 0

----------------------------------------------------------------------------
(* The Edge component (EdgeRenderer) and the EdgeWrapper (Edges/wrapEdge.tsx) *)

\* document.getElementById(id)
GetElementById(doc, id) == IF id \in DOMAIN doc THEN doc[id] ELSE <<>>

\* what a render of an Edge instance yields: the number of hooks it called, null
\* (<<>>) or the props of the <EdgeComponent> element it returned, and what the
\* EdgeWrapper rendered for that element draws
EdgeNull(hooks) == [threw |-> FALSE, hooks |-> hooks, element |-> <<>>, drawn |-> <<>>]
EdgeElement(hooks, props) ==
    [threw |-> FALSE, hooks |-> hooks, element |-> <<props>>, drawn |-> <<>>]
EdgeThrew == [threw |-> TRUE, hooks |-> 0, element |-> <<>>, drawn |-> <<>>]

\* no Edge instance is mounted for the edge
EdgeUnmounted == [threw |-> FALSE, hooks |-> 0, element |-> <<>>, drawn |-> <<>>]

\* the hooks called before the early returns (useCallback) and by a render that
\* runs to the end (useCallback and the two useMemo)
HooksBeforeReturns == 1
HooksOfFullRender == 3

\* edge.sourceHandle || null
HandleIdOf(handleId) == IF Truthy(handleId) THEN handleId ELSE Null

\* the handles the target end is looked up in
TargetNodeHandles(targetNodeBounds, connectionMode) ==
    IF connectionMode = "strict" THEN targetNodeBounds.target
    ELSE IF targetNodeBounds.target # <<>> THEN targetNodeBounds.target
    ELSE targetNodeBounds.source

\* handle ? handle.position : the default side
HandleSide(handle, defaultSide) == IF handle # <<>> THEN handle[1].position ELSE defaultSide

\* Edge, from the offsets on: the visibility test and the element returned
EdgeWithOffsets(edge, p, sourceEdgeOffset, targetEdgeOffset, sourcePosition, targetPosition, isVisible) ==
    IF sourceEdgeOffset.threw \/ targetEdgeOffset.threw THEN EdgeThrew
    ELSE IF ~isVisible THEN EdgeNull(HooksOfFullRender)
    ELSE EdgeElement(HooksOfFullRender,
             [source |-> edge.source,
              target |-> edge.target,
              sourceX |-> p.sourceX + sourceEdgeOffset.x,
              sourceY |-> p.sourceY + sourceEdgeOffset.y,
              targetX |-> p.targetX + targetEdgeOffset.x,
              targetY |-> p.targetY + targetEdgeOffset.y,
              sourcePosition |-> sourcePosition,
              targetPosition |-> targetPosition])

\* Edge, from the positions p of getEdgePositions on: the two useMemo and isVisible
EdgeWithPositions(edge, ns, doc, tr, w, h, onlyVisible, p, sourcePosition, targetPosition) ==
    EdgeWithOffsets(edge, p,
                    getEdgeOffsets(ns, doc, edge.source, 0),
                    getEdgeOffsets(ns, doc, edge.target, 0),
                    sourcePosition, targetPosition,
                    IF onlyVisible
                    THEN isEdgeVisible([x |-> p.sourceX, y |-> p.sourceY],
                                       [x |-> p.targetX, y |-> p.targetY], w, h, tr)
                    ELSE TRUE)

\* Edge, from the two handles on
EdgeWithHandles(edge, ns, doc, tr, w, h, onlyVisible, sourceNode, targetNode, sourceHandle, targetHandle) ==
    IF sourceHandle = <<>> THEN EdgeNull(HooksBeforeReturns)
    ELSE IF targetHandle = <<>> THEN EdgeNull(HooksBeforeReturns)
    ELSE EdgeWithPositions(edge, ns, doc, tr, w, h, onlyVisible,
             getEdgePositions(sourceNode, sourceHandle, HandleSide(sourceHandle, "bottom"),
                              targetNode, targetHandle, HandleSide(targetHandle, "top")),
             HandleSide(sourceHandle, "bottom"), HandleSide(targetHandle, "top"))

\* Edge, from the two nodes on: the test for initialized nodes and the handles
EdgeWithNodes(edge, ns, doc, tr, w, h, onlyVisible, connectionMode, sourceNode, targetNode) ==
    IF Falsy(sourceNode.width) \/ Falsy(targetNode.width)
    THEN EdgeNull(HooksBeforeReturns)
    ELSE EdgeWithHandles(edge, ns, doc, tr, w, h, onlyVisible, sourceNode, targetNode,
             getHandle(sourceNode.handleBounds.source, HandleIdOf(edge.sourceHandle)),
             getHandle(TargetNodeHandles(targetNode.handleBounds, connectionMode),
                       HandleIdOf(edge.targetHandle)))

\* Edge, from the result st of getSourceTargetNodes on
EdgeWithSourceTarget(edge, ns, doc, tr, w, h, onlyVisible, connectionMode, st) ==
    IF st.sourceNode = <<>> THEN EdgeNull(HooksBeforeReturns)
    ELSE IF st.targetNode = <<>> THEN EdgeNull(HooksBeforeReturns)
    ELSE EdgeWithNodes(edge, ns, doc, tr, w, h, onlyVisible, connectionMode,
                       st.sourceNode[1], st.targetNode[1])

\* the Edge component rendered for `edge`; connectionMode is the prop of that name
Edge(edge, ns, doc, tr, w, h, onlyVisible, connectionMode) ==
    EdgeWithSourceTarget(edge, ns, doc, tr, w, h, onlyVisible, connectionMode,
                         getSourceTargetNodes(edge, ns))

\* the EdgeWrapper rendered with these props: the coordinates handed to the edge
\* drawing component and the centers of the two EdgeAnchor (drawn when an
\* onEdgeUpdate handler is supplied)
EdgeWrapper(props, ns, doc) ==
    LET sourceNode == FindNode(ns, props.source)
        targetNode == FindNode(ns, props.target)
        sourceParent == IF sourceNode = <<>> THEN <<>>
                        ELSE FindNode(ns, sourceNode[1].parentId)
        targetParent == IF targetNode = <<>> THEN <<>>
                        ELSE FindNode(ns, targetNode[1].parentId)
        el1 == GetElementById(doc, "idwithstylescontent")
        el2 == GetElementById(doc, "idfornodeheader")
        elementPadding == convertFromPxToNum(findElemPropertyValue(el1, "padding"))
        elementHeight == convertFromPxToNum(findElemPropertyValue(el2, "height"))
        sourceParentX == IF sourceParent = <<>> THEN 0 ELSE sourceParent[1].position.x
        sourceParentY == IF sourceParent = <<>> THEN 0 ELSE sourceParent[1].position.y
        targetParentX == IF targetParent = <<>> THEN 0 ELSE targetParent[1].position.x
        targetParentY == IF targetParent = <<>> THEN 0 ELSE targetParent[1].position.y
    IN  [sourceX |-> props.sourceX + sourceParentX + elementPadding,
         sourceY |-> props.sourceY + sourceParentY + elementPadding + elementHeight,
         targetX |-> props.targetX + targetParentX + elementPadding,
         targetY |-> props.targetY + targetParentY + elementPadding + elementHeight,
         sourceAnchor |-> [centerX |-> props.sourceX, centerY |-> props.sourceY],
         targetAnchor |-> [centerX |-> props.targetX, centerY |-> props.targetY]]

----------------------------------------------------------------------------
(* NodeRenderer: visibleNodes, renderNode and the NodeWrapper instances *)

\* the filter of getNodesInside: a node that is not measured or is being dragged
\* is always inside; otherwise its box must overlap rBox (partially) or lie in it
NodeInside(n, rBox, partially) ==
    IF n.width = <<>> \/ n.height = <<>> \/ n.isDragging THEN TRUE
    ELSE LET nBox == rectToBox([x |-> n.position.x, y |-> n.position.y,
                                width |-> n.width[1], height |-> n.height[1]])
             xOverlap == Max2(0, Min2(rBox.x2, nBox.x2) - Max2(rBox.x, nBox.x))
             yOverlap == Max2(0, Min2(rBox.y2, nBox.y2) - Max2(rBox.y, nBox.y))
         IN  IF partially THEN xOverlap * yOverlap > 0
             ELSE xOverlap * yOverlap >= n.width[1] * n.height[1]

\* getNodesInside(nodes, rect, transform, partially)
getNodesInside(ns, rect, tr, partially) ==
    LET rBox == rectToBox([x |-> (rect.x - tr[1]) \div tr[3],
                           y |-> (rect.y - tr[2]) \div tr[3],
                           width |-> rect.width \div tr[3],
                           height |-> rect.height \div tr[3]])
        inside(n) == NodeInside(n, rBox, partially)
    IN  SelectSeq(ns, inside)

\* const visibleNodes = props.onlyRenderVisibleElements ? getNodesInside(...) : nodes
visibleNodes(ns, onlyVisible, w, h, tr) ==
    IF onlyVisible
    THEN getNodesInside(ns, [x |-> 0, y |-> 0, width |-> w, height |-> h], tr, TRUE)
    ELSE ns

\* the <NodeComponent key={node.id} nestLevel={nestLevel}> element renderNode
\* creates; path is the keys of the elements it is nested in, from the top
NodeElement(id, path, nestLevel) == [id |-> id, path |-> path, nestLevel |-> nestLevel]

RECURSIVE renderNode(_, _, _, _)
RECURSIVE renderChildren(_, _, _, _, _)

\* children.map(child => renderNode(child, nestLevel + 1)) with
\* children = visibleNodes.filter(n => n.parentId === node.id), from position k on
renderChildren(visible, id, nestLevel, path, k) ==
    IF k > Len(visible) THEN <<>>
    ELSE (IF visible[k].parentId = id
          THEN renderNode(visible, visible[k], nestLevel, path)
          ELSE <<>>)
         \o renderChildren(visible, id, nestLevel, path, k + 1)

\* mutant: the children are rendered one level too deep
renderNodeDeeper(visible, node, nestLevel, path) ==
    <<NodeElement(node.id, path, nestLevel)>>
    \o renderChildren(visible, node.id, nestLevel + 2, Append(path, node.id), 1)

\* renderNode(node, nestLevel): the element of node and, nested in it, those of
\* its visible children
renderNode(visible, node, nestLevel, path) ==
    <<NodeElement(node.id, path, nestLevel)>>
    \o renderChildren(visible, node.id, nestLevel + 1, Append(path, node.id), 1)

\* visibleNodes.filter(node => !node.parentId).map(node => renderNode(node, 0))
RECURSIVE renderRoots(_, _)
renderRoots(visible, k) ==
    IF k > Len(visible) THEN <<>>
    ELSE (IF ~Truthy(visible[k].parentId)
          THEN renderNode(visible, visible[k], 0, <<>>)
          ELSE <<>>)
         \o renderRoots(visible, k + 1)

\* the elements of one render of NodeRenderer
NodeElements(ns, onlyVisible, w, h, tr) ==
    renderRoots(visibleNodes(ns, onlyVisible, w, h, tr), 1)

\* mutant: React keeps the instance of a key wherever its element is nested
SameInstanceByKey(old, element) == old.id = element.id

\* React keeps an instance when the element has the same key at the same place
\* of the tree; everything else is unmounted and mounted anew
SameInstance(old, element) == old.id = element.id /\ old.path = element.path

\* the instance of prev that React keeps for the element, <<>> if it mounts
KeptInstance(prev, element) ==
    LET same(old) == SameInstance(old, element)
        kept == SelectSeq(prev, same)
    IN  IF kept = <<>> THEN <<>> ELSE <<kept[1]>>

\* useMemo(() => calculateZIndexes(mostRecentlyTouchedSceneIds),
\* [mostRecentlyTouchedSceneIds]): the kept instance keeps its value while the
\* prop is the same array. A replacement by an equal list is taken for the same
\* array, which keeps at least the values the instance would keep.
calculatedZIndexValue(kept, ns, id, touched) ==
    IF kept # <<>> /\ kept[1].deps = touched THEN kept[1].zIndex
    ELSE calculateZIndexes(ns, id, touched)

\* the NodeWrapper instance rendered for the element: nodeStyle.zIndex is the
\* memoized value
NodeWrapper(kept, element, ns, touched) ==
    [id |-> element.id, path |-> element.path, nestLevel |-> element.nestLevel,
     deps |-> touched,
     zIndex |-> calculatedZIndexValue(kept, ns, element.id, touched)]

\* React renders the elements over the instances prev of the pass before
CommitNodes(prev, elements, ns, touched) ==
    [k \in 1..Len(elements) |->
        NodeWrapper(KeptInstance(prev, elements[k]), elements[k], ns, touched)]

RenderNodes(prev, ns, touched, onlyVisible, w, h, tr) ==
    CommitNodes(prev, NodeElements(ns, onlyVisible, w, h, tr), ns, touched)

----------------------------------------------------------------------------
(* One render pass of BaseEdgeRenderer over the given store state and props *)

\* const renderConnectionLine = connectionNodeId && connectionHandleType
RenderConnectionLine(nodeId, handleType) == Truthy(nodeId) /\ Truthy(handleType)

\* useMemo(() => getEdgeOffsets(nodes, id), [nodes, id]) for every endpoint id
RenderEdgeOffsets(ns, doc) ==
    [id \in NodeIds(ns) |-> getEdgeOffsets(ns, doc, id, 0)]

\* style.zIndex of the <svg> of each edge
RenderEdgeZIndex(ns, es, touched, nodeId, handleType) ==
    [i \in 1..Len(es) |->
        calculateEdgeZIndexes(ns, touched, es[i].target, es[i].source,
                              RenderConnectionLine(nodeId, handleType))]

\* style.zIndex of the connection line's <svg>, when it is rendered
RenderConnectionLineZIndex(ns, touched, nodeId, handleType) ==
    IF RenderConnectionLine(nodeId, handleType)
    THEN <<calculateEdgeZIndexes(ns, touched, Null, nodeId,
                                 RenderConnectionLine(nodeId, handleType))>>
    ELSE <<>>

\* React renders the element an Edge returned: the EdgeWrapper of its edge type
RenderElement(e, ns, doc) ==
    IF e.element = <<>> THEN e
    ELSE [e EXCEPT !.drawn = <<EdgeWrapper(e.element[1], ns, doc)>>]

\* the <Edge> of edges.map: BaseEdgeRenderer does not pass connectionMode
RenderEdge(ns, doc, edge, tr, w, h, onlyVisible) ==
    RenderElement(Edge(edge, ns, doc, tr, w, h, onlyVisible, Undefined), ns, doc)

\* the render of instance i throws: in the component, or in React because the
\* instance called another number of hooks than in its render before
RenderThrows(prev, fresh, i) ==
    fresh[i].threw \/ (prev[i].hooks # 0 /\ prev[i].hooks # fresh[i].hooks)

\* what is mounted after the instances yielded fresh: a throw in a render
\* unmounts the tree, the edges of the pass with it
CommitEdges(prev, fresh) ==
    IF \E i \in 1..Len(fresh) : RenderThrows(prev, fresh, i)
    THEN [i \in 1..Len(fresh) |->
             IF RenderThrows(prev, fresh, i) THEN EdgeThrew ELSE EdgeUnmounted]
    ELSE fresh

\* React renders the Edge instance of every edge. prev is what the instances
\* yielded in the pass before. An instance that calls another number of hooks
\* than in its render before makes React throw ("Rendered fewer hooks than
\* expected" / "Rendered more hooks than during the previous render").
RenderEdges(prev, ns, doc, es, tr, w, h, onlyVisible) ==
    CommitEdges(prev, [i \in 1..Len(es) |-> RenderEdge(ns, doc, es[i], tr, w, h, onlyVisible)])

\* the first pass: no instance is mounted yet
MountEdges(ns, doc, es, tr, w, h, onlyVisible) ==
    RenderEdges([i \in 1..Len(es) |-> EdgeUnmounted], ns, doc, es, tr, w, h, onlyVisible)

\* a render has thrown and the tree is unmounted: nothing is rendered any more
TreeUnmounted == \E i \in 1..Len(renderedEdges) : renderedEdges[i].threw

\* the rendered values are those of a render pass over the state after the step
Rendered ==
    /\ ~TreeUnmounted
    /\ renderedEdges' = RenderEdges(renderedEdges, nodes', document', edges', transform',
                                    width', height', onlyRenderVisibleElements')
    /\ edgeOffsets' = RenderEdgeOffsets(nodes', document')
    /\ edgeZIndex' = RenderEdgeZIndex(nodes', edges', mostRecentlyTouchedSceneIds',
                                      connectionNodeId', connectionHandleType')
    /\ connectionLineZIndex' =
           RenderConnectionLineZIndex(nodes', mostRecentlyTouchedSceneIds',
                                      connectionNodeId', connectionHandleType')
    /\ renderedNodes' = RenderNodes(renderedNodes, nodes', mostRecentlyTouchedSceneIds',
                                    onlyRenderVisibleElements', width', height',
                                    transform')

----------------------------------------------------------------------------
(* NodeWrapper: the handlers wired to DraggableCore and to the node element.
   A handler works on st = [nodes, selectedElements, calls]: the store state it
   changes and the calls it makes *)

\* the handler makes the call
Call(st, handler, callee) == [st EXCEPT !.calls = Append(@, <<handler, callee>>)]

\* store action addSelectedElements: the elements become the selection
addSelectedElements(st, handler, elements) ==
    [Call(st, handler, "addSelectedElements") EXCEPT !.selectedElements = elements]

\* store action unsetNodesSelection: ends the selection rectangle, which the node
\* does not read
unsetNodesSelection(st, handler) == Call(st, handler, "unsetNodesSelection")

\* store action updateNodePosDiff({id, diff, isDragging}): the node and every
\* selected node is moved by diff (<<>> when omitted) and gets the isDragging flag
updateNodePosDiff(st, handler, id, diff, isDragging) ==
    LET moved(n) ==
            IF n.id = id \/ n.id \in st.selectedElements
            THEN [n EXCEPT !.position = IF diff = <<>> THEN @
                                        ELSE [x |-> @.x + diff[1].x, y |-> @.y + diff[1].y],
                           !.isDragging = isDragging]
            ELSE n
        callee == IF isDragging THEN "updateNodePosDiff(isDragging: true)"
                  ELSE "updateNodePosDiff(isDragging: false)"
    IN  [Call(st, handler, callee) EXCEPT
            !.nodes = [i \in 1..Len(st.nodes) |-> moved(st.nodes[i])]]

\* onClick of the node element
onSelectNodeHandler(st, id, isDraggable, isSelectable, selected) ==
    IF ~isDraggable
    THEN LET unset == unsetNodesSelection(st, "onSelectNodeHandler")
             sel == IF ~isSelectable THEN st
                    ELSE IF ~selected
                         THEN addSelectedElements(unset, "onSelectNodeHandler", {id})
                         ELSE unset
         IN  Call(sel, "onSelectNodeHandler", "onClick")
    ELSE st

\* onStart of DraggableCore
onDragStart(st, id, isSelectable, selected, selectOnDrag) ==
    LET started == Call(st, "onDragStart", "onNodeDragStart")
        unset == unsetNodesSelection(started, "onDragStart")
    IN  IF selectOnDrag /\ isSelectable
        THEN IF ~selected THEN addSelectedElements(unset, "onDragStart", {id}) ELSE unset
        ELSE IF ~selectOnDrag /\ ~selected /\ isSelectable
             THEN addSelectedElements(unset, "onDragStart", {})
             ELSE started

\* onDrag of DraggableCore, with the deltas of draggableData
onDrag(st, id, delta) ==
    updateNodePosDiff(Call(st, "onDrag", "onNodeDrag"), "onDrag", id, <<delta>>, TRUE)

onDragStopAlways(st, id, isDragging, isSelectable, selected, selectOnDrag) ==
    Call(updateNodePosDiff(st, "onDragStop", id, <<>>, FALSE), "onDragStop", "onNodeDragStop")

\* onStop of DraggableCore, with the isDragging prop of the last render
onDragStop(st, id, isDragging, isSelectable, selected, selectOnDrag) ==
    IF ~isDragging
    THEN LET sel == IF isSelectable /\ ~selectOnDrag /\ ~selected
                    THEN addSelectedElements(st, "onDragStop", {id})
                    ELSE st
         IN  Call(sel, "onDragStop", "onClick")
    ELSE Call(updateNodePosDiff(st, "onDragStop", id, <<>>, FALSE),
              "onDragStop", "onNodeDragStop")

\* the isDraggable and isSelectable props renderNode passes for a node that has no
\* draggable and no selectable field of its own
isDraggable(draggable) == draggable
isSelectable(selectable) == selectable

\* where in the node element the mouse goes down: on an element DraggableCore
\* starts a drag from ("handle": inside the dragHandle selector when one is
\* given, and not inside .nodrag), or on one it does not ("nodrag")
Targets == {"handle", "nodrag"}

\* the deltas DraggableCore computes for a mouse move, snapped to the grid
Deltas == {[x |-> 0, y |-> 0], [x |-> 10, y |-> 0], [x |-> -10, y |-> 0]}

\* no gesture yet
NoGesture == [phase |-> "idle", node |-> Null, target |-> "handle", moves |-> 0]

----------------------------------------------------------------------------
(* Inputs *)

Positions == {[x |-> 0, y |-> 0], [x |-> 5, y |-> 5]}

\* the handleBounds of a node without handles, and of a node that is not measured
NoHandles == [source |-> <<>>, target |-> <<>>]

\* a node as parseNode adds it to the store: not measured yet
Node(id, parentId, position) ==
    [id |-> id, parentId |-> parentId, position |-> position,
     width |-> <<>>, height |-> <<>>, handleBounds |-> NoHandles,
     isDragging |-> FALSE]

\* the measured size of the pane
PaneWidth == 100
PaneHeight == 100
Origin == [x |-> 0, y |-> 0]

\* the duplicate-free sequences over S of length at most n
SeqsOver(S, n) ==
    {q \in UNION {[1..k -> S] : k \in 0..n} :
        \A i, j \in 1..Len(q) : i # j => q[i] # q[j]}

\* the values the mostRecentlyTouchedSceneIds prop can take: not supplied, or a
\* duplicate-free list of ids of current nodes
TouchedValues(ns) == {<<>>} \cup {<<l>> : l \in SeqsOver(NodeIds(ns), MaxTouched)}

----------------------------------------------------------------------------
(* Operations: each store or prop change is followed by a render pass *)

\* the store replaces a node's parentId (setElements with a reparented node)
SetNodeParent(i, p) ==
    /\ nodes[i].parentId # p
    /\ nodes' = [nodes EXCEPT ![i].parentId = p]
    /\ UNCHANGED <<document, edges, connectionNodeId, connectionHandleType,
                   mostRecentlyTouchedSceneIds>>
    /\ UNCHANGED <<transform, width, height, onlyRenderVisibleElements>>
    /\ UNCHANGED interaction
    /\ Rendered

\* the store replaces a node's local position (updateNodePos / updateNodePosDiff)
SetNodePosition(i, pos) ==
    /\ nodes[i].position # pos
    /\ nodes' = [nodes EXCEPT ![i].position = pos]
    /\ UNCHANGED <<document, edges, connectionNodeId, connectionHandleType,
                   mostRecentlyTouchedSceneIds>>
    /\ UNCHANGED <<transform, width, height, onlyRenderVisibleElements>>
    /\ UNCHANGED interaction
    /\ Rendered

\* the browser lays the rendered scene elements out anew (mount, unmount, resize)
Layout(doc) ==
    /\ document # doc
    /\ document' = doc
    /\ UNCHANGED <<nodes, edges, connectionNodeId, connectionHandleType,
                   mostRecentlyTouchedSceneIds>>
    /\ UNCHANGED <<transform, width, height, onlyRenderVisibleElements>>
    /\ UNCHANGED interaction
    /\ Rendered

\* the parent component passes a new mostRecentlyTouchedSceneIds prop
SetMostRecentlyTouchedSceneIds(touched) ==
    /\ mostRecentlyTouchedSceneIds # touched
    /\ mostRecentlyTouchedSceneIds' = touched
    /\ UNCHANGED <<nodes, document, edges, connectionNodeId, connectionHandleType>>
    /\ UNCHANGED <<transform, width, height, onlyRenderVisibleElements>>
    /\ UNCHANGED interaction
    /\ Rendered

\* the store replaces the endpoints of an edge (edge added or updated)
SetEdge(i, source, target) ==
    /\ <<edges[i].source, edges[i].target>> # <<source, target>>
    /\ edges' = [edges EXCEPT ![i].source = source, ![i].target = target]
    /\ UNCHANGED <<nodes, document, connectionNodeId, connectionHandleType,
                   mostRecentlyTouchedSceneIds>>
    /\ UNCHANGED <<transform, width, height, onlyRenderVisibleElements>>
    /\ UNCHANGED interaction
    /\ Rendered

\* a connection is started from a handle of node nodeId (setConnectionNodeId)
StartConnection(nodeId, handleType) ==
    /\ ~RenderConnectionLine(connectionNodeId, connectionHandleType)
    /\ connectionNodeId' = nodeId
    /\ connectionHandleType' = handleType
    /\ UNCHANGED <<nodes, document, edges, mostRecentlyTouchedSceneIds>>
    /\ UNCHANGED <<transform, width, height, onlyRenderVisibleElements>>
    /\ UNCHANGED interaction
    /\ Rendered

\* the connection being drawn ends (dropped or connected)
EndConnection ==
    /\ RenderConnectionLine(connectionNodeId, connectionHandleType)
    /\ connectionNodeId' = Null
    /\ connectionHandleType' = Null
    /\ UNCHANGED <<nodes, document, edges, mostRecentlyTouchedSceneIds>>
    /\ UNCHANGED <<transform, width, height, onlyRenderVisibleElements>>
    /\ UNCHANGED interaction
    /\ Rendered

\* the store sets what was measured of a node (updateNodeDimensions): its size and
\* the bounds of its handles
UpdateNodeDimensions(i, w, h, handleBounds) ==
    /\ <<nodes[i].width, nodes[i].height, nodes[i].handleBounds>> # <<w, h, handleBounds>>
    /\ nodes' = [nodes EXCEPT ![i].width = w, ![i].height = h,
                              ![i].handleBounds = handleBounds]
    /\ UNCHANGED <<document, edges, connectionNodeId, connectionHandleType,
                   mostRecentlyTouchedSceneIds>>
    /\ UNCHANGED <<transform, width, height, onlyRenderVisibleElements>>
    /\ UNCHANGED interaction
    /\ Rendered

\* the store drops a node (removeElements without its edges, or setElements with
\* a list in which an edge names a node that is not in it)
RemoveNode(i) ==
    /\ nodes' = SubSeq(nodes, 1, i - 1) \o SubSeq(nodes, i + 1, Len(nodes))
    /\ UNCHANGED <<document, edges, connectionNodeId, connectionHandleType,
                   mostRecentlyTouchedSceneIds>>
    /\ UNCHANGED <<transform, width, height, onlyRenderVisibleElements>>
    /\ UNCHANGED interaction
    /\ Rendered

\* the store replaces the handle ids of an edge (edge updated)
SetEdgeHandles(i, sourceHandle, targetHandle) ==
    /\ <<edges[i].sourceHandle, edges[i].targetHandle>> # <<sourceHandle, targetHandle>>
    /\ edges' = [edges EXCEPT ![i].sourceHandle = sourceHandle,
                              ![i].targetHandle = targetHandle]
    /\ UNCHANGED <<nodes, document, connectionNodeId, connectionHandleType,
                   mostRecentlyTouchedSceneIds>>
    /\ UNCHANGED <<transform, width, height, onlyRenderVisibleElements>>
    /\ UNCHANGED interaction
    /\ Rendered

\* the pane is panned or zoomed (store transform)
SetTransform(tr) ==
    /\ transform # tr
    /\ transform' = tr
    /\ UNCHANGED <<nodes, document, edges, connectionNodeId, connectionHandleType,
                   mostRecentlyTouchedSceneIds, width, height, onlyRenderVisibleElements>>
    /\ UNCHANGED interaction
    /\ Rendered

\* the parent component passes a new onlyRenderVisibleElements prop
SetOnlyRenderVisibleElements(b) ==
    /\ onlyRenderVisibleElements # b
    /\ onlyRenderVisibleElements' = b
    /\ UNCHANGED <<nodes, document, edges, connectionNodeId, connectionHandleType,
                   mostRecentlyTouchedSceneIds, transform, width, height>>
    /\ UNCHANGED interaction
    /\ Rendered

\* the store and the props a node interaction leaves alone
StoreKept ==
    /\ UNCHANGED <<document, edges, connectionNodeId, connectionHandleType,
                   mostRecentlyTouchedSceneIds>>
    /\ UNCHANGED <<transform, width, height, onlyRenderVisibleElements>>
    /\ UNCHANGED <<nodesDraggable, elementsSelectable, selectNodesOnDrag>>

\* the store state and the calls a handler left behind
Handled(st) ==
    /\ nodes' = st.nodes
    /\ selectedElements' = st.selectedElements
    /\ calls' = st.calls

\* mouse down on the node element: DraggableCore.handleDragStart starts a drag
\* and calls onStart unless it is disabled or the target is excluded by handle or
\* cancel
MouseDown(id, target) ==
    /\ pointer.phase = "idle"
    /\ \E k \in 1..Len(renderedNodes) : renderedNodes[k].id = id
    /\ LET started == isDraggable(nodesDraggable) /\ target = "handle"
           st == [nodes |-> nodes, selectedElements |-> selectedElements, calls |-> <<>>]
       IN  /\ Handled(IF started
                      THEN onDragStart(st, id, isSelectable(elementsSelectable),
                                       id \in selectedElements, selectNodesOnDrag)
                      ELSE st)
           /\ dragging' = IF started THEN id ELSE Null
    /\ pointer' = [phase |-> "down", node |-> id, target |-> target, moves |-> 0]
    /\ StoreKept
    /\ Rendered

\* mouse move during a drag: DraggableCore.handleDrag calls onDrag unless the
\* snapped deltas are both 0
MouseMove(delta) ==
    /\ dragging # Null
    /\ pointer.moves < MaxMoves
    /\ LET st == [nodes |-> nodes, selectedElements |-> selectedElements, calls |-> calls]
           after == onDrag(st, dragging, delta)
       IN  IF delta.x = 0 /\ delta.y = 0
           THEN UNCHANGED <<nodes, selectedElements, calls, pointer>>
           ELSE /\ \A i \in 1..Len(after.nodes) :
                       after.nodes[i].position.x \in 0..MaxDragX
                /\ Handled(after)
                /\ pointer' = [pointer EXCEPT !.moves = @ + 1]
    /\ UNCHANGED dragging
    /\ StoreKept
    /\ Rendered

\* mouse up: DraggableCore.handleDragStop calls onStop if a drag was started
MouseUp ==
    /\ pointer.phase = "down"
    /\ LET st == [nodes |-> nodes, selectedElements |-> selectedElements, calls |-> calls]
           id == pointer.node
       IN  Handled(IF dragging = id
                   THEN onDragStop(st, id,
                                   nodes[CHOOSE i \in 1..Len(nodes) :
                                             nodes[i].id = id].isDragging,
                                   isSelectable(elementsSelectable),
                                   id \in selectedElements, selectNodesOnDrag)
                   ELSE st)
    /\ dragging' = Null
    /\ pointer' = [pointer EXCEPT !.phase = "up"]
    /\ StoreKept
    /\ Rendered

\* the click event that follows the mouse up on the node element
Click ==
    /\ pointer.phase = "up"
    /\ LET st == [nodes |-> nodes, selectedElements |-> selectedElements, calls |-> calls]
           id == pointer.node
       IN  Handled(onSelectNodeHandler(st, id, isDraggable(nodesDraggable),
                                       isSelectable(elementsSelectable),
                                       id \in selectedElements))
    /\ pointer' = [pointer EXCEPT !.phase = "idle"]
    /\ UNCHANGED dragging
    /\ StoreKept
    /\ Rendered

\* between gestures the store's interactivity flags, the selectNodesOnDrag prop
\* or the selection (selection rectangle, pane click) change
SetInteraction(draggable, selectable, selectOnDrag, selected) ==
    /\ pointer.phase = "idle"
    /\ <<nodesDraggable, elementsSelectable, selectNodesOnDrag, selectedElements>>
           # <<draggable, selectable, selectOnDrag, selected>>
    /\ nodesDraggable' = draggable
    /\ elementsSelectable' = selectable
    /\ selectNodesOnDrag' = selectOnDrag
    /\ selectedElements' = selected
    /\ UNCHANGED <<nodes, document, edges, connectionNodeId, connectionHandleType,
                   mostRecentlyTouchedSceneIds>>
    /\ UNCHANGED <<transform, width, height, onlyRenderVisibleElements>>
    /\ UNCHANGED <<pointer, dragging, calls>>
    /\ Rendered

----------------------------------------------------------------------------
(* Specifications *)

InitWith(ns, doc, es, touched) ==
    /\ nodes = ns
    /\ document = doc
    /\ edges = es
    /\ connectionNodeId = Null
    /\ connectionHandleType = Null
    /\ mostRecentlyTouchedSceneIds = touched
    /\ edgeOffsets = RenderEdgeOffsets(ns, doc)
    /\ edgeZIndex = RenderEdgeZIndex(ns, es, touched, Null, Null)
    /\ connectionLineZIndex = RenderConnectionLineZIndex(ns, touched, Null, Null)
    /\ transform = <<0, 0, 1>>
    /\ width = PaneWidth
    /\ height = PaneHeight
    /\ onlyRenderVisibleElements = FALSE
    /\ renderedEdges = MountEdges(ns, doc, es, <<0, 0, 1>>, PaneWidth, PaneHeight, FALSE)
    /\ renderedNodes = RenderNodes(<<>>, ns, touched, FALSE, PaneWidth, PaneHeight,
                                   <<0, 0, 1>>)
    /\ nodesDraggable = TRUE
    /\ elementsSelectable = TRUE
    /\ selectNodesOnDrag = TRUE
    /\ selectedElements = {}
    /\ pointer = NoGesture
    /\ dragging = Null
    /\ calls = <<>>

OffsetNodes == <<Node("S1", Undefined, Origin), Node("S2", Undefined, Origin),
                 Node("N1", Undefined, Origin)>>
SceneNodes == <<Node("S1", Undefined, Origin), Node("S2", Undefined, Origin),
                Node("S3", Undefined, Origin)>>
NoElements(ns) == [id \in NodeIds(ns) |-> <<>>]
OneEdge == <<[id |-> "e1", source |-> "S1", target |-> "S2",
             sourceHandle |-> Undefined, targetHandle |-> Undefined]>>

\* the documents laid out for the nodes ns: nothing rendered, every node rendered as
\* the header-only scene, and the four shapes dealt out to the nodes in turn
Documents(ns) ==
    {NoElements(ns), [id \in NodeIds(ns) |-> <<SceneHeaderOnly>>]}
    \cup {[id \in NodeIds(ns) |->
              LET i == CHOOSE k \in 1..Len(ns) : ns[k].id = id
              IN  DomShapes[((i + r) % Len(DomShapes)) + 1]] : r \in 1..Len(DomShapes)}

\* offsets: three nodes that are reparented, moved and laid out
InitOffsets == InitWith(OffsetNodes, NoElements(OffsetNodes), <<>>, <<>>)

NextOffsets ==
    \/ \E i \in 1..Len(nodes), p \in NodeIds(nodes) \cup {Undefined} : SetNodeParent(i, p)
    \/ \E i \in 1..Len(nodes), pos \in Positions : SetNodePosition(i, pos)
    \/ \E doc \in Documents(nodes) : Layout(doc)

SpecOffsets == InitOffsets /\ [][NextOffsets]_vars

\* node stacking: three scene nodes that are reparented while scenes are touched
InitNodeZ == InitWith(SceneNodes, NoElements(SceneNodes), <<>>, <<>>)

NextNodeZ ==
    \/ \E i \in 1..Len(nodes), p \in NodeIds(nodes) \cup {Undefined} : SetNodeParent(i, p)
    \/ \E touched \in TouchedValues(nodes) : SetMostRecentlyTouchedSceneIds(touched)

SpecNodeZ == InitNodeZ /\ [][NextNodeZ]_vars

\* edge stacking: one edge among three nodes that are reparented, scenes touched
EdgeEnds == {"S1", "N1", "ghost"}

InitEdgeZ == InitWith(OffsetNodes, NoElements(OffsetNodes), OneEdge, <<>>)

NextEdgeZ ==
    \/ \E i \in 1..Len(nodes), p \in NodeIds(nodes) \cup {Undefined} : SetNodeParent(i, p)
    \/ \E touched \in TouchedValues(nodes) : SetMostRecentlyTouchedSceneIds(touched)
    \/ \E i \in 1..Len(edges), s \in EdgeEnds, t \in EdgeEnds : SetEdge(i, s, t)

SpecEdgeZ == InitEdgeZ /\ [][NextEdgeZ]_vars

\* connection drawing: a connection line is drawn over one edge and three nodes
NextConnection ==
    \/ \E i \in 1..Len(nodes), p \in NodeIds(nodes) \cup {Undefined} : SetNodeParent(i, p)
    \/ \E touched \in TouchedValues(nodes) : SetMostRecentlyTouchedSceneIds(touched)
    \/ \E id \in NodeIds(nodes) : StartConnection(id, "source")
    \/ EndConnection

SpecConnection == InitEdgeZ /\ [][NextConnection]_vars

\* edge resolution: two edges between two nodes that are measured, with handles
\* that come and go, while edge e1 is re-targeted and the edges name handles
HandlesNone == NoHandles
HandlesOne ==
    [source |-> <<<<Handle("a", 8, 8, 4, 4, "bottom")>>>>,
     target |-> <<<<Handle("a", 8, 0, 4, 4, "top")>>>>]
HandlesTwo ==
    [source |-> <<<<Handle("a", 18, 4, 4, 4, "right"), Handle("b", 8, 8, 4, 4, "bottom")>>>>,
     target |-> <<<<Handle("a", 0, 4, 4, 4, "left"), Handle("b", 8, 0, 4, 4, "top")>>>>]

\* what can be known of a node: nothing yet, the width before the height, and
\* both with no, one or two handles of each type
Measurements ==
    {[width |-> <<>>, height |-> <<>>, handleBounds |-> NoHandles],
     [width |-> <<20>>, height |-> <<>>, handleBounds |-> HandlesOne],
     [width |-> <<20>>, height |-> <<10>>, handleBounds |-> HandlesNone],
     [width |-> <<20>>, height |-> <<10>>, handleBounds |-> HandlesOne],
     [width |-> <<20>>, height |-> <<10>>, handleBounds |-> HandlesTwo]}

\* the measurements of the second node: nothing yet, or all with one handle of each type
MeasurementsOfPeer ==
    {m \in Measurements : m.width = <<>> \/ (m.height # <<>> /\ m.handleBounds = HandlesOne)}

Measured(n, m) ==
    [n EXCEPT !.width = m.width, !.height = m.height, !.handleBounds = m.handleBounds]

ResolveNodes == <<Node("N1", Undefined, Origin), Node("N2", Undefined, [x |-> 40, y |-> 40])>>

\* the ends of edge e1; "ghost" is the id of no node
SourceEnds == {"N1", "ghost"}
TargetEnds == {"N2", "ghost"}

\* the handle ids an edge can name; no handle has the id "x"
HandleIds == {Undefined, "a", "b", "x"}

ResolveEdges(s, t) ==
    <<[id |-> "e1", source |-> s, target |-> t,
       sourceHandle |-> Undefined, targetHandle |-> Undefined],
      [id |-> "e2", source |-> "N2", target |-> "N1",
       sourceHandle |-> Undefined, targetHandle |-> Undefined]>>

\* the first pass that renders edges: the pane is measured, each node is measured
\* or not, and e1 may be dangling from the start
InitResolve ==
    \E m1 \in Measurements, m2 \in MeasurementsOfPeer, s \in SourceEnds, t \in TargetEnds :
        InitWith(<<Measured(ResolveNodes[1], m1), Measured(ResolveNodes[2], m2)>>,
                 NoElements(ResolveNodes), ResolveEdges(s, t), <<>>)

NextResolve ==
    \/ \E i \in 1..Len(nodes) :
           \E m \in IF nodes[i].id = "N1" THEN Measurements ELSE MeasurementsOfPeer :
               UpdateNodeDimensions(i, m.width, m.height, m.handleBounds)
    \/ \E i \in 1..Len(nodes) : RemoveNode(i)
    \/ \E s \in SourceEnds, t \in TargetEnds : SetEdge(1, s, t)
    \/ \E h \in HandleIds : SetEdgeHandles(1, h, Undefined)
    \/ \E h \in HandleIds : SetEdgeHandles(2, Undefined, h)

SpecResolve == InitResolve /\ [][NextResolve]_vars

\* edge geometry: one edge between two measured nodes nested in a scene that is
\* moved and laid out, with handles on every side, under a pane that is panned
\* and zoomed
Sides == {"top", "right", "bottom", "left"}

\* the handle of this side and size: its offset in the node is that of the side
HandleAt(side, size) ==
    CASE side = "top" -> Handle("a", 8, 0, size, size, side)
      [] side = "right" -> Handle("a", 16, 2, size, size, side)
      [] side = "bottom" -> Handle("a", 8, 6, size, size, side)
      [] side = "left" -> Handle("a", 0, 2, size, size, side)

HandlesAt(side, size) ==
    [source |-> <<<<HandleAt(side, size)>>>>, target |-> <<<<HandleAt(side, size)>>>>]

\* a handle measures 4 x 4, or 0 x 0 when it is not displayed
HandleSizes == {0, 4}

\* the handle bounds measured on the source node and on the target node
SourceLayouts == {HandlesAt(side, size) : side \in Sides, size \in HandleSizes}
TargetLayouts == {HandlesAt("top", 4), HandlesAt("left", 4)}

GeometryNodes ==
    <<Measured(Node("S1", Undefined, Origin),
               [width |-> <<200>>, height |-> <<200>>, handleBounds |-> NoHandles]),
      Measured(Node("N1", "S1", Origin),
               [width |-> <<20>>, height |-> <<10>>, handleBounds |-> HandlesAt("bottom", 4)]),
      Measured(Node("N2", "S1", [x |-> 0, y |-> 40]),
               [width |-> <<20>>, height |-> <<10>>, handleBounds |-> HandlesAt("top", 4)])>>

ScenePositions == {[x |-> 0, y |-> 0], [x |-> 100, y |-> 0]}
TargetPositions == {[x |-> 0, y |-> 40], [x |-> 40, y |-> 0]}

GeometryEdges ==
    <<[id |-> "e1", source |-> "N1", target |-> "N2",
       sourceHandle |-> Undefined, targetHandle |-> Undefined]>>

\* the document with this element for scene S1 and these elements with the ids
\* "idwithstylescontent" and "idfornodeheader"
GeometryDocument(scene, content, header) ==
    [k \in {"S1", "N1", "N2", "idwithstylescontent", "idfornodeheader"} |->
        CASE k = "S1" -> scene
          [] k = "idwithstylescontent" -> content
          [] k = "idfornodeheader" -> header
          [] OTHER -> <<>>]

GeometryDocuments ==
    {GeometryDocument(scene, styled[1], styled[2]) :
        scene \in {<<>>, <<SceneHeaderOnly>>},
        styled \in {<<<<>>, <<>>>>, <<<<Elem(Px100, Px4, <<>>)>>, <<Elem(Px20, Px0, <<>>)>>>>}}

Transforms == {<<0, 0, 1>>, <<-100, 0, 1>>, <<0, 0, 2>>}

InitGeometry ==
    InitWith(GeometryNodes, GeometryDocument(<<>>, <<>>, <<>>), GeometryEdges, <<>>)

NextGeometry ==
    \/ \E pos \in ScenePositions : SetNodePosition(1, pos)
    \/ \E pos \in TargetPositions : SetNodePosition(3, pos)
    \/ \E hb \in SourceLayouts : UpdateNodeDimensions(2, <<20>>, <<10>>, hb)
    \/ \E hb \in TargetLayouts : UpdateNodeDimensions(3, <<20>>, <<10>>, hb)
    \/ \E doc \in GeometryDocuments : Layout(doc)
    \/ \E tr \in Transforms : SetTransform(tr)
    \/ \E b \in BOOLEAN : SetOnlyRenderVisibleElements(b)

SpecGeometry == InitGeometry /\ [][NextGeometry]_vars

\* chrome measurements: three levels S1 > S2 > N1 whose scenes are moved while
\* their elements come, go and lose measured properties
ChromeNodes ==
    <<Node("S1", Undefined, Origin), Node("S2", "S1", Origin), Node("N1", "S2", Origin)>>

ChromeShapes ==
    {<<>>, <<SceneHeaderOnly>>, <<SceneUnstyled>>, <<ScenePaddingAbsent>>,
     <<SceneHeaderAbsent>>}

ChromeDocuments ==
    {[id \in NodeIds(ChromeNodes) |->
         IF id = "S1" THEN outer ELSE IF id = "S2" THEN inner ELSE <<>>] :
        outer \in ChromeShapes, inner \in ChromeShapes}

InitChrome == InitWith(ChromeNodes, NoElements(ChromeNodes), <<>>, <<>>)

NextChrome ==
    \/ \E i \in 1..Len(nodes), pos \in Positions : SetNodePosition(i, pos)
    \/ \E doc \in ChromeDocuments : Layout(doc)

SpecChrome == InitChrome /\ [][NextChrome]_vars

\* node tree: three measured nodes whose parentIds are set to each other, to
\* themselves and to an id of no node, while they are moved into and out of the
\* visible region and onlyRenderVisibleElements is switched
TreeNodes ==
    <<Measured(Node("S1", Undefined, Origin),
               [width |-> <<20>>, height |-> <<10>>, handleBounds |-> NoHandles]),
      Measured(Node("S2", Undefined, Origin),
               [width |-> <<20>>, height |-> <<10>>, handleBounds |-> NoHandles]),
      Measured(Node("N1", Undefined, Origin),
               [width |-> <<20>>, height |-> <<10>>, handleBounds |-> NoHandles])>>

TreeParents == NodeIds(TreeNodes) \cup {Undefined, "ghost"}
TreePositions == {[x |-> 0, y |-> 0], [x |-> 500, y |-> 500]}

InitTree == InitWith(TreeNodes, NoElements(TreeNodes), <<>>, <<>>)

NextTree ==
    \/ \E i \in 1..Len(nodes), p \in TreeParents : SetNodeParent(i, p)
    \/ \E i \in 1..Len(nodes), pos \in TreePositions : SetNodePosition(i, pos)
    \/ \E b \in BOOLEAN : SetOnlyRenderVisibleElements(b)

SpecTree == InitTree /\ [][NextTree]_vars

----------------------------------------------------------------------------
(* The touched-scene list kept by the component that supplies the
   mostRecentlyTouchedSceneIds prop *)

\* the list without the id
Without(list, id) ==
    LET other(x) == x # id
    IN  SelectSeq(list, other)

touchAppend(list, containerId) == Without(list, containerId) \o <<containerId>>

\* touch(containerId): the id moves to the front of the list, inserted if absent
touch(list, containerId) == <<containerId>> \o Without(list, containerId)

\* a touch event (click, drag start or edge interaction) on the container: the
\* list kept by the parent component is updated and passed down as the prop
Touch(containerId) ==
    /\ mostRecentlyTouchedSceneIds # <<>>
    /\ mostRecentlyTouchedSceneIds' = <<touch(mostRecentlyTouchedSceneIds[1], containerId)>>
    /\ UNCHANGED <<nodes, document, edges, connectionNodeId, connectionHandleType>>
    /\ UNCHANGED <<transform, width, height, onlyRenderVisibleElements>>
    /\ UNCHANGED interaction
    /\ Rendered

\* touch events: three scenes and a node, the second scene top-level or nested in
\* the first, the node in any scene, one edge between the node and the third
\* scene; the list is supplied and empty at the start
TouchNodes == <<Node("S1", Undefined, Origin), Node("S2", Undefined, Origin),
                Node("S3", Undefined, Origin), Node("N1", "S3", Origin)>>
TouchScenes == {"S1", "S2", "S3"}
TouchParents(id) ==
    IF id = "N1" THEN TouchScenes ELSE IF id = "S2" THEN {Undefined, "S1"} ELSE {}
TouchEdgeEnds == {"N1", "S3"}
TouchEdge == <<[id |-> "e1", source |-> "N1", target |-> "N1",
               sourceHandle |-> Undefined, targetHandle |-> Undefined]>>

InitTouch == InitWith(TouchNodes, NoElements(TouchNodes), TouchEdge, <<<<>>>>)

NextTouch ==
    \/ \E id \in TouchScenes : Touch(id)
    \/ \E i \in 1..Len(nodes) : \E p \in TouchParents(nodes[i].id) : SetNodeParent(i, p)
    \/ \E i \in 1..Len(edges), s \in TouchEdgeEnds, t \in TouchEdgeEnds : SetEdge(i, s, t)

SpecTouch == InitTouch /\ [][NextTouch]_vars

\* node interaction: two top-level nodes, clicked and dragged
DragNodes == <<Node("N1", Undefined, Origin), Node("N2", Undefined, Origin)>>

InitDrag == InitWith(DragNodes, NoElements(DragNodes), <<>>, <<>>)

NextDrag ==
    \/ \E id \in NodeIds(nodes), target \in Targets : MouseDown(id, target)
    \/ \E delta \in Deltas : MouseMove(delta)
    \/ MouseUp
    \/ Click
    \/ \E d, s, o \in BOOLEAN, sel \in SUBSET NodeIds(nodes) : SetInteraction(d, s, o, sel)

SpecDrag == InitDrag /\ [][NextDrag]_vars

Init == InitOffsets \/ InitNodeZ \/ InitEdgeZ \/ InitResolve \/ InitGeometry
        \/ InitChrome \/ InitTree \/ InitTouch \/ InitDrag
Next == NextOffsets \/ NextNodeZ \/ NextEdgeZ \/ NextConnection \/ NextResolve
        \/ NextGeometry \/ NextChrome \/ NextTree \/ NextTouch \/ NextDrag
Spec == Init /\ [][Next]_vars

----------------------------------------------------------------------------
(* Properties of offset resolution (checked under SpecOffsets) *)

\* the padding measured on the element rendered for node id
MeasuredPadding(id) ==
    LET e == QuerySelector(document, id)
    IN  IF e = <<SceneHeaderOnly>> THEN 10 ELSE IF e = <<SceneWrapped>> THEN 4 ELSE 0

\* the height measured above the content area of the element rendered for node id
MeasuredHeaderHeight(id) ==
    LET e == QuerySelector(document, id)
    IN  IF e = <<SceneHeaderOnly>> THEN 20 ELSE IF e = <<SceneWrapped>> THEN 80 ELSE 0

NodeOf(id) == nodes[CHOOSE i \in 1..Len(nodes) : nodes[i].id = id]
HasNode(id) == \E i \in 1..Len(nodes) : nodes[i].id = id

\* the ids met from id along parentId in exactly k steps (empty when the chain ended)
RECURSIVE AncestorAt(_, _)
AncestorAt(id, k) ==
    IF k = 0 THEN id
    ELSE LET a == AncestorAt(id, k - 1)
         IN  IF HasNode(a) THEN NodeOf(a).parentId ELSE Undefined

\* the parentId chain of id never ends: it runs into a cycle
OnParentCycle(id) == HasNode(AncestorAt(id, Len(nodes)))

C2_RootIsZero ==
    \A i \in 1..Len(nodes) :
        nodes[i].parentId = Undefined => edgeOffsets[nodes[i].id] = Returned(0, 0)

\* a moved, measured root that contains the other nodes
C2_Witness ==
    /\ NodeOf("S1").parentId = Undefined
    /\ NodeOf("S1").position = [x |-> 5, y |-> 5]
    /\ document["S1"] = <<SceneHeaderOnly>>
    /\ NodeOf("S2").parentId = "S1"
    /\ NodeOf("N1").parentId = "S2"
    /\ edgeOffsets["S1"] = Returned(0, 0)
    /\ edgeOffsets["S2"] # Returned(0, 0)

\* the scenario of C3: S1 at (0,0) with padding 10 and header height 20, N1 at (5,5) in S1
C3_Scenario ==
    /\ NodeOf("S1").parentId = Undefined
    /\ NodeOf("S1").position = [x |-> 0, y |-> 0]
    /\ MeasuredPadding("S1") = 10
    /\ MeasuredHeaderHeight("S1") = 20
    /\ NodeOf("N1").parentId = "S1"
    /\ NodeOf("N1").position = [x |-> 5, y |-> 5]

\* C3 as stated: in the scenario the resolved offset of N1 is (15, 35).
C3_Original == C3_Scenario => edgeOffsets["N1"] = Returned(15, 35)

\* C3 (amended): in the scenario the resolved offset of N1 is (10, 30), the
\* container's position plus its chrome; N1's own local position is not part of
\* it, and (15, 35) is that local position plus the offset.
C3_Amended ==
    C3_Scenario =>
        /\ edgeOffsets["N1"] = Returned(10, 30)
        /\ NodeOf("N1").position.x + edgeOffsets["N1"].x = 15
        /\ NodeOf("N1").position.y + edgeOffsets["N1"].y = 35

C3_Witness == C3_Scenario /\ ~edgeOffsets["N1"].threw

\* C4: resolution ends for every node set; for a node whose parentId chain runs
\* into a cycle the cycle is detected and the offset returned is (0, 0).
C4_CycleYieldsZero ==
    \A i \in 1..Len(nodes) :
        /\ ~edgeOffsets[nodes[i].id].threw
        /\ OnParentCycle(nodes[i].id) => edgeOffsets[nodes[i].id] = Returned(0, 0)

----------------------------------------------------------------------------
(* Properties of node stacking (checked under SpecNodeZ) *)

\* the containing scene of a node: its parentId if it has one, else its own id
ContainingScene(n) == IF n.parentId # Undefined THEN n.parentId ELSE n.id

InList(list, s) == \E k \in 1..Len(list) : list[k] = s

\* the index of s in the duplicate-free list
Rank(list, s) == (CHOOSE k \in 1..Len(list) : list[k] = s) - 1

\* (N - r) * 10 for a scene at index r of a list of length N, 0 for a scene not in it
Ordinal(list, s) == IF InList(list, s) THEN (Len(list) - Rank(list, s)) * 10 ELSE 0

\* the z-index of the node with this id under the current nodes and touched list
ZIndexOfNode(id) == calculateZIndexes(nodes, id, mostRecentlyTouchedSceneIds)

\* C5: with the touched-scene list supplied, the z-index of a node is
\* 10 + ordinal + bonus: ordinal from the rank of its containing scene (its
\* parentId, else its own id), bonus 5 if it has a parentId and 0 otherwise.
C5_NodeZIndexFormula ==
    mostRecentlyTouchedSceneIds # <<>> =>
        \A i \in 1..Len(nodes) :
            ZIndexOfNode(nodes[i].id) =
                10 + Ordinal(mostRecentlyTouchedSceneIds[1], ContainingScene(nodes[i]))
                   + (IF nodes[i].parentId # Undefined THEN 5 ELSE 0)

\* list [S2, S1]: S3 inside S1 gets 10 + 10 + 5, S2 gets 10 + 20, S1 gets 10 + 10
C5_Witness ==
    /\ mostRecentlyTouchedSceneIds = <<<<"S2", "S1">>>>
    /\ NodeOf("S3").parentId = "S1"
    /\ NodeOf("S1").parentId = Undefined
    /\ NodeOf("S2").parentId = Undefined
    /\ ZIndexOfNode("S3") = 25
    /\ ZIndexOfNode("S2") = 30
    /\ ZIndexOfNode("S1") = 20

\* C6: if scene A is before scene B in the touched list, every node under A is at
\* least as high as every node of an untouched scene and, overlay status being
\* equal, strictly higher than every node under B; with [S2, S1] and S3 untouched,
\* plain S2 is above plain S1, which is above plain S3.
C6_RecencyOrder ==
    mostRecentlyTouchedSceneIds # <<>> =>
        LET list == mostRecentlyTouchedSceneIds[1]
            Overlay(n) == n.parentId # Undefined
        IN  /\ \A ka, kb \in 1..Len(list) : \A a, b, u \in 1..Len(nodes) :
                   (ka < kb /\ ContainingScene(nodes[a]) = list[ka]) =>
                       /\ ~InList(list, ContainingScene(nodes[u])) =>
                              ZIndexOfNode(nodes[a].id) >= ZIndexOfNode(nodes[u].id)
                       /\ (ContainingScene(nodes[b]) = list[kb]
                           /\ Overlay(nodes[a]) = Overlay(nodes[b])) =>
                              ZIndexOfNode(nodes[a].id) > ZIndexOfNode(nodes[b].id)
            /\ (list = <<"S2", "S1">>
                /\ \A i \in 1..Len(nodes) : nodes[i].parentId = Undefined) =>
                   /\ ZIndexOfNode("S2") > ZIndexOfNode("S1")
                   /\ ZIndexOfNode("S1") > ZIndexOfNode("S3")

\* the scenario: [S2, S1], three plain nodes, S3 untouched: 30 > 20 > 10
C6_Witness ==
    /\ mostRecentlyTouchedSceneIds = <<<<"S2", "S1">>>>
    /\ \A i \in 1..Len(nodes) : nodes[i].parentId = Undefined
    /\ ZIndexOfNode("S2") = 30
    /\ ZIndexOfNode("S1") = 20
    /\ ZIndexOfNode("S3") = 10

\* C7: with the touched list supplied and the parent chains acyclic, every node
\* with a parentId is strictly above the container node that is its parent.
C7_OverlayAboveParent ==
    (mostRecentlyTouchedSceneIds # <<>>
     /\ \A i \in 1..Len(nodes) : ~OnParentCycle(nodes[i].id)) =>
        \A i, j \in 1..Len(nodes) :
            nodes[i].parentId = nodes[j].id =>
                ZIndexOfNode(nodes[i].id) > ZIndexOfNode(nodes[j].id)

----------------------------------------------------------------------------
(* Properties of edge stacking (checked under SpecConnection and SpecEdgeZ) *)

Resolved(i) == HasNode(edges[i].source) /\ HasNode(edges[i].target)

\* the containing scenes of the two endpoint nodes of edge i
EndpointScenes(i) ==
    {ContainingScene(NodeOf(edges[i].source)), ContainingScene(NodeOf(edges[i].target))}

\* the ordinal of the best-ranked touched scene among S, 0 when none is touched
BestOrdinal(list, S) ==
    LET touchedRanks == {Rank(list, sc) : sc \in {x \in S : InList(list, x)}}
    IN  IF touchedRanks = {} THEN 0 ELSE (Len(list) - SetMin(touchedRanks)) * 10

\* C9: with the touched list supplied, the z-index of an edge between two existing
\* nodes is 10 + ordinal + 5, the ordinal taken at the minimum index of the
\* endpoint scenes that are in the list, and 0 when neither is in it.
C9_EdgeRank ==
    mostRecentlyTouchedSceneIds # <<>> =>
        \A i \in 1..Len(edges) :
            Resolved(i) =>
                edgeZIndex[i] =
                    Num(10 + BestOrdinal(mostRecentlyTouchedSceneIds[1], EndpointScenes(i)) + 5)

\* C10: the scene taken for a top-level endpoint node is the node's own id: an
\* edge with a top-level endpoint that is in the touched list at index r is
\* ranked r or better, so its z-index is at least 10 + (N - r) * 10 + 5.
C10_TopLevelEndpointRank ==
    mostRecentlyTouchedSceneIds # <<>> =>
        LET list == mostRecentlyTouchedSceneIds[1]
        IN  \A i \in 1..Len(edges) : \A e \in {edges[i].source, edges[i].target} :
                (Resolved(i) /\ NodeOf(e).parentId = Undefined /\ InList(list, e)) =>
                    ~JsLess(edgeZIndex[i], Num(10 + (Len(list) - Rank(list, e)) * 10 + 5))

\* the container nodes associated with the endpoints of edge i: the node that is
\* the parent of an endpoint, and a top-level endpoint that itself holds a node
EndpointContainers(i) ==
    {j \in 1..Len(nodes) :
        \E e \in {edges[i].source, edges[i].target} :
            \/ NodeOf(e).parentId = nodes[j].id
            \/ /\ nodes[j].id = e
               /\ nodes[j].parentId = Undefined
               /\ \E k \in 1..Len(nodes) : nodes[k].parentId = e}

\* C11: for every supplied touched list and every edge between two existing nodes
\* (parent chains acyclic), the z-index of the edge is strictly greater than the
\* z-index of each container node associated with its endpoints.
C11_EdgeAboveContainers ==
    (mostRecentlyTouchedSceneIds # <<>>
     /\ \A i \in 1..Len(nodes) : ~OnParentCycle(nodes[i].id)) =>
        \A i \in 1..Len(edges) :
            Resolved(i) =>
                \A j \in EndpointContainers(i) :
                    JsLess(Num(ZIndexOfNode(nodes[j].id)), edgeZIndex[i])

\* C12: the default 3 is the z-index of a node or of an edge between two existing
\* nodes exactly when the touched list is not supplied; with an empty supplied
\* list every node without a parent gets 10, every node with a parent gets 15 and
\* every such edge gets 15.
C12_DefaultOnlyWhenNotSupplied ==
    /\ \A i \in 1..Len(nodes) :
           /\ ZIndexOfNode(nodes[i].id) = 3 <=> mostRecentlyTouchedSceneIds = <<>>
           /\ mostRecentlyTouchedSceneIds = <<<<>>>> =>
                  ZIndexOfNode(nodes[i].id) =
                      IF nodes[i].parentId = Undefined THEN 10 ELSE 15
    /\ \A i \in 1..Len(edges) :
           Resolved(i) =>
               /\ edgeZIndex[i] = Num(3) <=> mostRecentlyTouchedSceneIds = <<>>
               /\ mostRecentlyTouchedSceneIds = <<<<>>>> => edgeZIndex[i] = Num(15)

\* an empty supplied list over a plain node, an overlay node and an edge between them
C12_Witness ==
    /\ mostRecentlyTouchedSceneIds = <<<<>>>>
    /\ NodeOf("S1").parentId = Undefined
    /\ NodeOf("N1").parentId = "S1"
    /\ edges[1].source = "S1"
    /\ edges[1].target = "N1"
    /\ ZIndexOfNode("S1") = 10
    /\ ZIndexOfNode("N1") = 15
    /\ edgeZIndex[1] = Num(15)

----------------------------------------------------------------------------
(* Properties of edge resolution (checked under SpecResolve) *)

\* edge i names an end that is no node of the current list
Dangling(i) == ~HasNode(edges[i].source) \/ ~HasNode(edges[i].target)

\* C13: for an edge whose source or target id is the id of no current node, the
\* Edge returns null and its render does not throw; every other edge of the pass
\* (whose own render does not throw) yields exactly what its own resolution yields.
C13_DanglingEdgeIsLocal ==
    \A i \in 1..Len(edges) :
        Dangling(i) =>
            /\ renderedEdges[i].element = <<>>
            /\ ~renderedEdges[i].threw
            /\ \A j \in 1..Len(edges) :
                   (j # i /\ ~renderedEdges[j].threw) =>
                       renderedEdges[j] =
                           RenderEdge(nodes, document, edges[j], transform, width,
                                      height, onlyRenderVisibleElements)

\* a node is initialized when both its width and its height are known
Initialized(n) == n.width # <<>> /\ n.height # <<>>

\* both handles of edge i resolve on its end nodes
HandlesResolve(i) ==
    LET e == RenderEdge([k \in 1..Len(nodes) |->
                            [nodes[k] EXCEPT !.width = <<20>>, !.height = <<10>>]],
                        document, edges[i], transform, width, height, FALSE)
    IN  e.element # <<>>

\* C14: an edge between existing nodes is not rendered when an end node is not
\* initialized (width and height both known), and it is not rejected for that
\* when both end nodes are initialized.
C14_UninitializedNotRendered ==
    \A i \in 1..Len(edges) :
        (Resolved(i) /\ ~TreeUnmounted) =>
            LET s == NodeOf(edges[i].source)
                t == NodeOf(edges[i].target)
            IN  /\ (~Initialized(s) \/ ~Initialized(t)) => renderedEdges[i].element = <<>>
                /\ (Initialized(s) /\ Initialized(t) /\ HandlesResolve(i)
                    /\ ~onlyRenderVisibleElements) =>
                       renderedEdges[i].element # <<>>

\* the ids of the handles declared on node n, of either type
DeclaredHandleIds(n) ==
    LET IdsOf(b) == IF b = <<>> THEN {} ELSE {b[1][k].id : k \in 1..Len(b[1])}
    IN  IdsOf(n.handleBounds.source) \cup IdsOf(n.handleBounds.target)

\* C15: an edge between existing nodes that names a handle id that is not among
\* the handles declared on that end node is not rendered, however many handles
\* the node declares.
C15_UnknownHandleNotRendered ==
    \A i \in 1..Len(edges) :
        (Resolved(i) /\ ~TreeUnmounted) =>
            /\ (Truthy(edges[i].sourceHandle)
                /\ edges[i].sourceHandle \notin DeclaredHandleIds(NodeOf(edges[i].source))) =>
                   renderedEdges[i].element = <<>>
            /\ (Truthy(edges[i].targetHandle)
                /\ edges[i].targetHandle \notin DeclaredHandleIds(NodeOf(edges[i].target))) =>
                   renderedEdges[i].element = <<>>

\* the side an end without a handle id binds to: the side of the sole handle of
\* the list, the given default side when the list has no or several handles
BoundSide(b, defaultSide) ==
    IF b # <<>> /\ Len(b[1]) = 1 THEN b[1][1].position ELSE defaultSide

\* C16: an edge that names no handle id, between existing initialized nodes, is
\* rendered, each end on the node's sole handle when it has exactly one and
\* otherwise on the default side: bottom for the source, top for the target.
C16_DefaultHandle ==
    \A i \in 1..Len(edges) :
        (Resolved(i) /\ ~TreeUnmounted /\ ~onlyRenderVisibleElements
         /\ ~Truthy(edges[i].sourceHandle) /\ ~Truthy(edges[i].targetHandle)
         /\ Initialized(NodeOf(edges[i].source)) /\ Initialized(NodeOf(edges[i].target))) =>
            /\ renderedEdges[i].element # <<>>
            /\ renderedEdges[i].element[1].sourcePosition =
                   BoundSide(NodeOf(edges[i].source).handleBounds.source, "bottom")
            /\ renderedEdges[i].element[1].targetPosition =
                   BoundSide(NodeOf(edges[i].target).handleBounds.target, "top")

----------------------------------------------------------------------------
(* Properties of edge geometry (checked under SpecGeometry) *)

\* the point of a port on this side of the rectangle at (x, y) of size (w, h)
PortPoint(side, x, y, w, h) ==
    CASE side = "top" -> [x |-> x + w \div 2, y |-> y]
      [] side = "right" -> [x |-> x + w, y |-> y + h \div 2]
      [] side = "bottom" -> [x |-> x + w \div 2, y |-> y + h]
      [] side = "left" -> [x |-> x, y |-> y + h \div 2]

\* a port that measures nothing has no size of its own
PortSize(own, fallback) == IF own # 0 THEN own ELSE fallback

\* the local point of port hd of node n
PortOf(n, hd) ==
    PortPoint(hd.position, hd.x + n.position.x, hd.y + n.position.y,
              PortSize(hd.width, OptNumber(n.width)),
              PortSize(hd.height, OptNumber(n.height)))

\* both endpoints of edge i exist and declare exactly one port on the edge's side
HasSolePorts(i) ==
    /\ Resolved(i)
    /\ NodeOf(edges[i].source).handleBounds.source # <<>>
    /\ Len(NodeOf(edges[i].source).handleBounds.source[1]) = 1
    /\ NodeOf(edges[i].target).handleBounds.target # <<>>
    /\ Len(NodeOf(edges[i].target).handleBounds.target[1]) = 1

SourcePort(i) == NodeOf(edges[i].source).handleBounds.source[1][1]
TargetPort(i) == NodeOf(edges[i].target).handleBounds.target[1][1]
SourcePoint(i) == PortOf(NodeOf(edges[i].source), SourcePort(i))
TargetPoint(i) == PortOf(NodeOf(edges[i].target), TargetPort(i))

\* the position and chrome of every ancestor of node id, each counted once
RECURSIVE AbsoluteOffset(_, _)
AbsoluteOffset(id, fuel) ==
    IF fuel = 0 \/ ~HasNode(id) THEN [x |-> 0, y |-> 0]
    ELSE IF ~HasNode(NodeOf(id).parentId) THEN [x |-> 0, y |-> 0]
    ELSE LET parent == NodeOf(NodeOf(id).parentId)
             up == AbsoluteOffset(parent.id, fuel - 1)
         IN  [x |-> up.x + parent.position.x + MeasuredPadding(parent.id),
              y |-> up.y + parent.position.y + MeasuredPadding(parent.id)
                        + MeasuredHeaderHeight(parent.id)]

SourceOffset(i) == AbsoluteOffset(edges[i].source, Len(nodes))
TargetOffset(i) == AbsoluteOffset(edges[i].target, Len(nodes))

\* C17: for every drawn edge, the endpoint coordinates the drawing component
\* receives are the port's local point plus the absolute offset of its node, every
\* ancestor's position and chrome counted once, and both update anchors are
\* centred on these same coordinates.
C17_DrawnEndpoints ==
    \A i \in 1..Len(edges) :
        (HasSolePorts(i) /\ renderedEdges[i].drawn # <<>>) =>
            LET d == renderedEdges[i].drawn[1]
            IN  /\ d.sourceX = SourcePoint(i).x + SourceOffset(i).x
                /\ d.sourceY = SourcePoint(i).y + SourceOffset(i).y
                /\ d.targetX = TargetPoint(i).x + TargetOffset(i).x
                /\ d.targetY = TargetPoint(i).y + TargetOffset(i).y
                /\ d.sourceAnchor = [centerX |-> d.sourceX, centerY |-> d.sourceY]
                /\ d.targetAnchor = [centerX |-> d.targetX, centerY |-> d.targetY]

\* C18: the local point of every port, and of a node without a port, is the point
\* of its side, top (x + w/2, y), right (x + w, y + h/2), bottom (x + w/2, y + h),
\* left (x, y + h/2), of the rectangle at the port's offset plus the node's local
\* position, of the port's size or else of the node's size; and the element of a
\* rendered edge carries these points plus the offsets of its endpoints.
C18_PortLocalPoint ==
    /\ \A i \in 1..Len(nodes) :
           LET n == nodes[i]
           IN  /\ \A side \in Sides :
                      getHandlePosition(side, n, <<>>) =
                          PortPoint(side, n.position.x, n.position.y,
                                    OptNumber(n.width), OptNumber(n.height))
               /\ \A b \in {n.handleBounds.source, n.handleBounds.target} :
                      b # <<>> =>
                          \A k \in 1..Len(b[1]) :
                              getHandlePosition(b[1][k].position, n, <<b[1][k]>>) =
                                  PortOf(n, b[1][k])
    /\ \A i \in 1..Len(edges) :
           (HasSolePorts(i) /\ renderedEdges[i].element # <<>>) =>
               LET e == renderedEdges[i].element[1]
               IN  /\ e.sourceX = SourcePoint(i).x + edgeOffsets[edges[i].source].x
                   /\ e.sourceY = SourcePoint(i).y + edgeOffsets[edges[i].source].y
                   /\ e.targetX = TargetPoint(i).x + edgeOffsets[edges[i].target].x
                   /\ e.targetY = TargetPoint(i).y + edgeOffsets[edges[i].target].y

\* a rendered edge from a right port without a size, which takes the 20 x 10 of
\* its node, (16 + 20, 2 + 5), to a left port of 4 x 4 at (40, 0 + 2 + 2)
C18_Witness ==
    /\ HasSolePorts(1)
    /\ SourcePort(1) = HandleAt("right", 0)
    /\ TargetPort(1) = HandleAt("left", 4)
    /\ NodeOf("N2").position = [x |-> 40, y |-> 0]
    /\ edgeOffsets["N1"] = Returned(0, 0)
    /\ renderedEdges[1].element # <<>>
    /\ renderedEdges[1].element[1].sourceX = 36
    /\ renderedEdges[1].element[1].sourceY = 7
    /\ renderedEdges[1].element[1].targetX = 40
    /\ renderedEdges[1].element[1].targetY = 4

\* the extent of an edge on one axis, one unit wide when both ends coincide
Extent(a, b) == IF a = b THEN <<a, a + 1>> ELSE IF a < b THEN <<a, b>> ELSE <<b, a>>

\* the length shared by two intervals
Shared(s, t) ==
    LET lo == IF s[1] > t[1] THEN s[1] ELSE t[1]
        hi == IF s[2] < t[2] THEN s[2] ELSE t[2]
    IN  IF hi > lo THEN hi - lo ELSE 0

\* the visible region of the canvas under the current transform
ViewX == <<(0 - transform[1]) \div transform[3], (width - transform[1]) \div transform[3]>>
ViewY == <<(0 - transform[2]) \div transform[3], (height - transform[2]) \div transform[3]>>

\* the area the inflated box of the edge from sp to tp shares with the visible region
OverlapArea(sp, tp) ==
    Shared(Extent(sp.x, tp.x), ViewX) * Shared(Extent(sp.y, tp.y), ViewY)

StrictlyInside(pt) ==
    /\ ViewX[1] < pt.x /\ pt.x < ViewX[2]
    /\ ViewY[1] < pt.y /\ pt.y < ViewY[2]

\* C19: for the points of every edge, isEdgeVisible reports the edge visible
\* exactly when the box of the two points, widened by one unit on an axis where
\* they coincide, shares a positive area with the viewport box; so a vertical or
\* horizontal edge strictly inside the viewport is reported visible; and with
\* onlyRenderVisibleElements on, the edge is rendered exactly when the points it
\* hands to isEdgeVisible are reported visible.
C19_InflatedOverlap ==
    \A i \in 1..Len(edges) :
        HasSolePorts(i) =>
            LET sp == SourcePoint(i)
                tp == TargetPoint(i)
                visible == isEdgeVisible(sp, tp, width, height, transform)
            IN  /\ visible <=> OverlapArea(sp, tp) > 0
                /\ ((sp.x = tp.x \/ sp.y = tp.y)
                    /\ StrictlyInside(sp) /\ StrictlyInside(tp)) => visible
                /\ onlyRenderVisibleElements =>
                       (renderedEdges[i].element # <<>> <=> visible)

\* a vertical edge from (10, 10) to (10, 40) inside the 100 x 100 viewport is
\* rendered with onlyRenderVisibleElements on
C19_Witness ==
    /\ onlyRenderVisibleElements
    /\ HasSolePorts(1)
    /\ SourcePoint(1) = [x |-> 10, y |-> 10]
    /\ TargetPoint(1) = [x |-> 10, y |-> 40]
    /\ StrictlyInside(SourcePoint(1))
    /\ StrictlyInside(TargetPoint(1))
    /\ renderedEdges[1].element # <<>>

\* the point pt moved by the offset off
Moved(pt, off) == [x |-> pt.x + off.x, y |-> pt.y + off.y]

\* C20: with onlyRenderVisibleElements on, an edge between two nodes nested in a
\* container is skipped only if the box of its canvas-space endpoints, the local
\* points plus the absolute offsets of their nodes, shares no area with the
\* visible region.
C20_SkippedOnlyOffCanvas ==
    \A i \in 1..Len(edges) :
        (/\ onlyRenderVisibleElements
         /\ HasSolePorts(i)
         /\ HasNode(NodeOf(edges[i].source).parentId)
         /\ HasNode(NodeOf(edges[i].target).parentId)
         /\ renderedEdges[i].element = <<>>) =>
            OverlapArea(Moved(SourcePoint(i), SourceOffset(i)),
                        Moved(TargetPoint(i), TargetOffset(i))) = 0

----------------------------------------------------------------------------
(* Properties of missing chrome measurements (checked under SpecChrome) *)

\* the element of scene id is not in the document
ElementAbsent(id) == QuerySelector(document, id) = <<>>

\* the padding that can be measured on the element of scene id, 0 without one
ChromePadding(id) ==
    IF QuerySelector(document, id) \in {<<SceneHeaderOnly>>, <<SceneHeaderAbsent>>}
    THEN 10 ELSE 0

\* the header height that can be measured on the element of scene id, 0 without one
ChromeHeader(id) ==
    IF QuerySelector(document, id) \in {<<SceneHeaderOnly>>, <<ScenePaddingAbsent>>}
    THEN 20 ELSE 0

\* C22: for every node n with a parent p on an acyclic chain, resolution returns a
\* result; a padding or header height that cannot be measured on p (no element,
\* or no such property) contributes zero; and when neither can be measured, the
\* offset of n is the offset of p plus p's local position.
C22_MissingChromeIsZero ==
    \A i, j \in 1..Len(nodes) :
        LET n == nodes[i]
            p == nodes[j]
        IN  (n.parentId = p.id /\ ~OnParentCycle(n.id)) =>
                /\ ~edgeOffsets[n.id].threw
                /\ edgeOffsets[n.id].x =
                       edgeOffsets[p.id].x + p.position.x + ChromePadding(p.id)
                /\ edgeOffsets[n.id].y =
                       edgeOffsets[p.id].y + p.position.y + ChromePadding(p.id)
                           + ChromeHeader(p.id)
                /\ (ElementAbsent(p.id) \/ QuerySelector(document, p.id) = <<SceneUnstyled>>) =>
                       edgeOffsets[n.id] =
                           Returned(edgeOffsets[p.id].x + p.position.x,
                                    edgeOffsets[p.id].y + p.position.y)

\* S2 has no element and sits at (5, 5) in S1, whose element is measured: N1
\* resolves to S2's offset (5 + 10, 5 + 10 + 20) plus (5, 5)
C22_Witness ==
    /\ ElementAbsent("S2")
    /\ QuerySelector(document, "S1") = <<SceneHeaderOnly>>
    /\ NodeOf("S1").position = [x |-> 5, y |-> 5]
    /\ NodeOf("S2").position = [x |-> 5, y |-> 5]
    /\ edgeOffsets["S2"] = Returned(15, 35)
    /\ edgeOffsets["N1"] = Returned(20, 40)

----------------------------------------------------------------------------
(* Further properties of edge and node stacking *)

\* C24: whenever a touched-scene list is supplied, the z-index of every edge,
\* also of an edge neither of whose endpoint ids names a node, is a finite integer
\* of at least 15, and it is 15 when none of its endpoints exists.
C24_EdgeZIndexFinite ==
    \A i \in 1..Len(edges) :
        mostRecentlyTouchedSceneIds # <<>> =>
            /\ edgeZIndex[i].inf = 0
            /\ edgeZIndex[i].v >= baseZIndexForEdge + additionalZIndexForEdge
            /\ (~HasNode(edges[i].source) /\ ~HasNode(edges[i].target)) =>
                   edgeZIndex[i] = Num(baseZIndexForEdge + additionalZIndexForEdge)

\* the z-index formula on the current node list and touched-scene list
FormulaZIndex(n) ==
    IF mostRecentlyTouchedSceneIds = <<>> THEN 3
    ELSE 10 + Ordinal(mostRecentlyTouchedSceneIds[1], ContainingScene(n))
            + (IF n.parentId # Undefined THEN 5 ELSE 0)

\* C21: in every state reached by replacing the touched-scene list and
\* reparenting nodes, the z-index applied to each rendered node is the formula
\* evaluated on the current node list and the current touched-scene list.
C21_AppliedZIndexIsCurrent ==
    \A k \in 1..Len(renderedNodes) :
        renderedNodes[k].zIndex = FormulaZIndex(NodeOf(renderedNodes[k].id))

\* S3, top-level at first, is rendered inside S1 under the list [S1] and has
\* 10 + 10 + 5, while S2 has been moved into S3 and has 15
C21_Witness ==
    /\ mostRecentlyTouchedSceneIds = <<<<"S1">>>>
    /\ \E k \in 1..Len(renderedNodes) :
           /\ renderedNodes[k].id = "S3"
           /\ renderedNodes[k].path = <<"S1">>
           /\ renderedNodes[k].zIndex = 25
    /\ \E k \in 1..Len(renderedNodes) :
           /\ renderedNodes[k].id = "S2"
           /\ renderedNodes[k].path = <<"S1", "S3">>
           /\ renderedNodes[k].zIndex = 15

\* C26: a rendered node nested two or more levels deep has 15 plus the ordinal of
\* its direct parent, whatever the rank of the scenes above: 15 when the direct
\* parent is not in the list, also when its top-level scene is the first of the
\* list.
C26_DirectParentOnly ==
    mostRecentlyTouchedSceneIds # <<>> =>
        \A k \in 1..Len(renderedNodes) :
            LET inst == renderedNodes[k]
                list == mostRecentlyTouchedSceneIds[1]
            IN  inst.nestLevel >= 2 =>
                    /\ inst.zIndex = 15 + Ordinal(list, inst.path[Len(inst.path)])
                    /\ ~InList(list, inst.path[Len(inst.path)]) => inst.zIndex = 15

\* list [S1], S1 > S2 > S3: S3 has 15, below the 20 of its top-level scene S1
C26_Witness ==
    /\ mostRecentlyTouchedSceneIds = <<<<"S1">>>>
    /\ \E k, t \in 1..Len(renderedNodes) :
           /\ renderedNodes[k].id = "S3"
           /\ renderedNodes[k].path = <<"S1", "S2">>
           /\ renderedNodes[k].nestLevel = 2
           /\ renderedNodes[k].zIndex = 15
           /\ renderedNodes[t].id = "S1"
           /\ renderedNodes[t].zIndex = 20
           /\ renderedNodes[k].zIndex < renderedNodes[t].zIndex

----------------------------------------------------------------------------
(* Properties of the node tree (checked under SpecTree) *)

\* node n is in the visible set: every node when onlyRenderVisibleElements is
\* off, else the nodes whose box shares an area with the visible region
InVisibleSet(n) ==
    \/ ~onlyRenderVisibleElements
    \/ n.width = <<>> \/ n.height = <<>>
    \/ Shared(<<n.position.x, n.position.x + n.width[1]>>, ViewX)
           * Shared(<<n.position.y, n.position.y + n.height[1]>>, ViewY) > 0

\* the parent chain of id ends, within fuel steps, at a node without parentId,
\* and every node on it is in the visible set
RECURSIVE ChainRenders(_, _)
ChainRenders(id, fuel) ==
    /\ fuel > 0
    /\ HasNode(id)
    /\ InVisibleSet(NodeOf(id))
    /\ \/ NodeOf(id).parentId = Undefined
       \/ ChainRenders(NodeOf(id).parentId, fuel - 1)

\* the number of parents above node id on a chain that ends
RECURSIVE DepthOf(_, _)
DepthOf(id, fuel) ==
    IF fuel = 0 \/ ~HasNode(id) THEN 0
    ELSE IF NodeOf(id).parentId = Undefined THEN 0
    ELSE 1 + DepthOf(NodeOf(id).parentId, fuel - 1)

\* C30: for every node list, also with parentIds on a cycle or of no node, the
\* render yields each node at most once; a node is rendered exactly when its
\* parent chain ends at a node without parentId and every node on the chain is in
\* the visible set, and then with nestLevel equal to its depth.
C30_RenderedTree ==
    /\ \A k, l \in 1..Len(renderedNodes) :
           k # l => renderedNodes[k].id # renderedNodes[l].id
    /\ \A i \in 1..Len(nodes) :
           (\E k \in 1..Len(renderedNodes) : renderedNodes[k].id = nodes[i].id)
               <=> ChainRenders(nodes[i].id, Len(nodes))
    /\ \A k \in 1..Len(renderedNodes) :
           renderedNodes[k].nestLevel = DepthOf(renderedNodes[k].id, Len(nodes))

\* with onlyRenderVisibleElements on, S1 > S2 > N1 are all rendered, N1 at
\* nestLevel 2
C30_Witness ==
    /\ onlyRenderVisibleElements
    /\ Len(renderedNodes) = 3
    /\ \E k \in 1..Len(renderedNodes) :
           /\ renderedNodes[k].id = "N1"
           /\ renderedNodes[k].path = <<"S1", "S2">>
           /\ renderedNodes[k].nestLevel = 2

----------------------------------------------------------------------------
(* Properties of recency tiers (checked under SpecEdgeZ and SpecTouch) *)

IsRendered(id) == \E k \in 1..Len(renderedNodes) : renderedNodes[k].id = id

\* the z-index applied to the rendered node id
AppliedZIndex(id) ==
    renderedNodes[CHOOSE k \in 1..Len(renderedNodes) : renderedNodes[k].id = id].zIndex

\* edge i runs between existing nodes whose containing scene is scene sc
EdgeOfScene(i, sc) ==
    /\ Resolved(i)
    /\ ContainingScene(NodeOf(edges[i].source)) = sc
    /\ ContainingScene(NodeOf(edges[i].target)) = sc

\* C25: with the touched list supplied, for every rendered container: its own
\* z-index is strictly below that of every node it contains and of every edge of
\* its scene; such an edge is strictly below the 10000000 of a connection being
\* drawn; and the nodes it contains and the edges of its scene have the same
\* z-index.
C25_TierOrder ==
    mostRecentlyTouchedSceneIds # <<>> =>
        \A sc \in 1..Len(nodes) :
            IsRendered(nodes[sc].id) =>
                /\ \A n \in 1..Len(nodes) :
                       (nodes[n].parentId = nodes[sc].id /\ IsRendered(nodes[n].id)) =>
                           AppliedZIndex(nodes[sc].id) < AppliedZIndex(nodes[n].id)
                /\ \A i \in 1..Len(edges) :
                       EdgeOfScene(i, nodes[sc].id) =>
                           /\ JsLess(Num(AppliedZIndex(nodes[sc].id)), edgeZIndex[i])
                           /\ JsLess(edgeZIndex[i], Num(drawingZIndex))
                           /\ \A n \in 1..Len(nodes) :
                                  (nodes[n].parentId = nodes[sc].id
                                   /\ IsRendered(nodes[n].id)) =>
                                      edgeZIndex[i] = Num(AppliedZIndex(nodes[n].id))

\* the ids of list are pairwise different
NoDuplicate(list) == \A i, j \in 1..Len(list) : i # j => list[i] # list[j]

\* C23: in every step from the empty list on, the touched-scene list has no
\* duplicate id, a touched container is at index 0 afterwards, a list that
\* changes has changed by one id moving (or being inserted) to the front with all
\* other ids in their previous relative order, and the list does not get shorter.
C23_TouchList ==
    [][LET list == mostRecentlyTouchedSceneIds[1]
           after == mostRecentlyTouchedSceneIds'[1]
       IN  /\ NoDuplicate(after)
           /\ Len(after) >= Len(list)
           /\ \A id \in TouchScenes : Touch(id) => after[1] = id
           /\ after # list =>
                  Without(after, after[1]) = Without(list, after[1])]_vars

\* all three scenes touched, S1 last, S2 before it
C23_Witness ==
    mostRecentlyTouchedSceneIds = <<<<"S1", "S2", "S3">>>>

\* the scene whose rank gives edge i its z-index: the best-ranked listed parent of
\* its endpoints
RankedBy(i, list, sc) ==
    /\ Resolved(i)
    /\ InList(list, sc)
    /\ \E e \in {edges[i].source, edges[i].target} : NodeOf(e).parentId = sc
    /\ \A e \in {edges[i].source, edges[i].target} :
           InList(list, NodeOf(e).parentId) =>
               Rank(list, sc) <= Rank(list, NodeOf(e).parentId)

\* every node contained in B and every edge ranked by B is strictly below the
\* container A
BelowContainer(list, A, B) ==
    /\ \A n \in 1..Len(nodes) :
           (nodes[n].parentId = B /\ IsRendered(nodes[n].id)) =>
               AppliedZIndex(nodes[n].id) < AppliedZIndex(A)
    /\ \A i \in 1..Len(edges) :
           RankedBy(i, list, B) => JsLess(edgeZIndex[i], Num(AppliedZIndex(A)))

\* the nodes of a scene: the container and the nodes it contains
NodesOfScene(sc) ==
    {nodes[n].id : n \in {k \in 1..Len(nodes) : ContainingScene(nodes[k]) = sc}}

\* C29: for every touched list with scene A at a smaller index than scene B, every
\* node contained in B and every edge ranked by B has a z-index strictly below
\* that of the container A; and a touch of a third scene C leaves the z-index
\* order between the nodes of A and the nodes of B as it was.
C29_RecencyDominates ==
    [][LET list == mostRecentlyTouchedSceneIds[1]
       IN  /\ \A A, B \in TouchScenes :
                  (InList(list, A) /\ InList(list, B) /\ Rank(list, A) < Rank(list, B)) =>
                      /\ BelowContainer(list, A, B)
                      /\ \A C \in TouchScenes \ {A, B} :
                             Touch(C) =>
                                 \A a \in NodesOfScene(A), b \in NodesOfScene(B) :
                                     /\ (AppliedZIndex(a) < AppliedZIndex(b))
                                            <=> (AppliedZIndex(a)' < AppliedZIndex(b)')
                                     /\ (AppliedZIndex(a) = AppliedZIndex(b))
                                            <=> (AppliedZIndex(a)' = AppliedZIndex(b)')]_vars

----------------------------------------------------------------------------
(* Properties of clicking and dragging a node (checked under SpecDrag) *)

\* how often the callee is called in the sequence of calls
RECURSIVE TimesCalled(_, _)
TimesCalled(cs, callee) ==
    IF cs = <<>> THEN 0
    ELSE (IF cs[1][2] = callee THEN 1 ELSE 0) + TimesCalled(Tail(cs), callee)

NodeIn(ns, id) == ns[CHOOSE i \in 1..Len(ns) : ns[i].id = id]

\* C27: when the drag of a node stops (DraggableCore calls onStop): isDragging is
\* set exactly when onDrag was called in this gesture; with isDragging false the
\* stop calls onClick and neither updateNodePosDiff nor onNodeDragStop; with
\* isDragging true it calls updateNodePosDiff with isDragging false, then
\* onNodeDragStop, which leaves the node's flag cleared, and not onClick; either
\* way exactly one of onClick and onNodeDragStop is called.
C27_DragStopOrClick ==
    [][(dragging # Null /\ dragging' = Null) =>
           LET id == dragging
               wasDragging == NodeIn(nodes, id).isDragging
               made == SubSeq(calls', Len(calls) + 1, Len(calls'))
           IN  /\ wasDragging <=> pointer.moves > 0
               /\ ~wasDragging =>
                      /\ TimesCalled(made, "onClick") = 1
                      /\ TimesCalled(made, "updateNodePosDiff(isDragging: false)") = 0
                      /\ TimesCalled(made, "updateNodePosDiff(isDragging: true)") = 0
                      /\ TimesCalled(made, "onNodeDragStop") = 0
                      /\ nodes' = nodes
               /\ wasDragging =>
                      /\ made = << <<"onDragStop", "updateNodePosDiff(isDragging: false)">>,
                                   <<"onDragStop", "onNodeDragStop">> >>
                      /\ ~NodeIn(nodes', id).isDragging
               /\ TimesCalled(made, "onClick") + TimesCalled(made, "onNodeDragStop") = 1]_vars

\* a drag of N1 with two moves has stopped: the last calls are those of onDragStop
C27_Witness ==
    /\ pointer = [phase |-> "up", node |-> "N1", target |-> "handle", moves |-> 2]
    /\ Len(calls) >= 2
    /\ calls[Len(calls)] = <<"onDragStop", "onNodeDragStop">>
    /\ calls[Len(calls) - 1] = <<"onDragStop", "updateNodePosDiff(isDragging: false)">>
    /\ NodeIn(nodes, "N1").position.x = 10
    /\ ~NodeIn(nodes, "N1").isDragging

\* C28: when the click event ends a gesture without movement, onClick has been
\* called exactly once since the mouse went down: by onSelectNodeHandler when the
\* node is not draggable, by onDragStop when it is.
C28_ClickOnce ==
    [][(pointer.phase = "up" /\ pointer'.phase = "idle" /\ pointer.moves = 0) =>
           /\ TimesCalled(calls', "onClick") = 1
           /\ \A k \in 1..Len(calls') :
                  calls'[k][2] = "onClick" =>
                      calls'[k][1] = (IF isDraggable(nodesDraggable) THEN "onDragStop"
                                      ELSE "onSelectNodeHandler")]_vars

====
